---- MODULE Spec2Model ----
(***************************************************************************)
(* pulsar-punctual: OSC-driven tempo synchronisation.                      *)
(*                                                                         *)
(*   TempoSync  (src/lib/sonic/tempo-sync.js)  decision engine + applier   *)
(*   OscService (src/lib/sonic/osc-service.js) UDP transport               *)
(*                                                                         *)
(* Numbers.  Every JavaScript number of the tempo code (cps, seconds,      *)
(* cycles, tolerance, lead, drift) is held as the integer numerator of a   *)
(* fraction over One, so that 1.0 is One and 0.5 is Half.  The inputs are  *)
(* drawn from that grid, on which the sums, differences and remainders of  *)
(* the code are exact.                                                     *)
(***************************************************************************)
EXTENDS Integers, Sequences, FiniteSets, TLC

\* ------------------------------------------------------------------------
\* Fixed-point unit and bounds
\* ------------------------------------------------------------------------
One == 640
Half == One \div 2

MaxCps == 2          \* cps inputs are 1.0 .. MaxCps
MaxTime == 2         \* timetags / clock readings are 1.0 .. MaxTime seconds
MaxSockets == 2      \* osc.UDPPort objects created in one run
MaxCount == 2        \* messages counted in one run
MaxTicks == 2        \* clock advances in one run
MaxPackets == 2      \* packets of one bundle
EpochMs == 5000      \* Date.now() when the service is constructed
MaxCycleQuarters == 3 \* cycle inputs are 0, 1/4, .. MaxCycleQuarters/4
MaxArgs == 4          \* arguments of one /dirt/play message
MaxPending == 4       \* calls of Main.start() or of Main.stop() in flight
MaxPanics == 2        \* calls of panic() whose timer has not run
MaxAdds == 2600       \* items appended to the console in one run
MaxDropped == 1       \* addMessage calls whose rendering throws
MaxRows == 4           \* lines of the buffer of the editor
MaxStarts == 2         \* calls of Main.start() in one run
MaxStops == 2          \* calls of Main.stop() in one run
MaxAudioTicks == 4    \* advances of the clock of the audio service

Abs(x) == IF x < 0 THEN -x ELSE x

\* ------------------------------------------------------------------------
\* JavaScript values
\* ------------------------------------------------------------------------
Num(v) == [t |-> "number", v |-> v]
Undefined == [t |-> "undefined", v |-> 0]
Null == [t |-> "null", v |-> 0]
NaN == [t |-> "NaN", v |-> 0]
Str == [t |-> "string", v |-> 0]
\* a string that Number() reads as the finite number v, such as "0" or "1.5"
NumStr(v) == [t |-> "numstring", v |-> v]
Infinity == [t |-> "infinity", v |-> 0]
JsTrue == [t |-> "boolean", v |-> 1]

\* typeof x === 'number' && isFinite(x)
IsFiniteNumber(x) == x.t = "number"
\* typeof x === 'number' (NaN is a number to typeof)
TypeofNumber(x) == x.t \in {"number", "NaN"}
\* JavaScript truthiness of the values above
Truthy(x) ==
  \/ x.t \in {"string", "numstring", "infinity", "boolean", "object"}
  \/ x.t = "number" /\ x # [t |-> "number", v |-> 0]
       /\ x # [t |-> "number", neg |-> FALSE, mag |-> <<0, 0, 0, 0>>]

\* a % b of JavaScript for b > 0: the remainder takes the sign of a
JsRem(a, b) == IF a >= 0 THEN a % b ELSE -((-a) % b)

\* the drift or lead left as it is: the wrap is forgotten
WrapHalfNone(x) == x

\* ((x % 1) + 1) % 1; if (x > 0.5) x -= 1
\* tempo-sync.js:157-158 and :224
WrapHalf(x) ==
  LET w == JsRem(JsRem(x, One) + One, One)
  IN IF w > Half THEN w - One ELSE w

\* ------------------------------------------------------------------------
\* Double arithmetic on NTP timetags
\* ------------------------------------------------------------------------
\* A 64-bit fixed-point magnitude in units of 2^-32 seconds is held as four
\* 16-bit limbs <<a3, a2, a1, a0>>: a3 * 2^16 + a2 whole seconds and
\* (a1 * 2^16 + a0) / 2^32 of a second.  4294967296 is Limb * Limb.
Limb == 65536
\* significand bits of the float64 every + - / of JavaScript rounds to
MantissaBits == 53

WZero == <<0, 0, 0, 0>>

\* the limbs brought back into 0 .. Limb - 1; the top limb keeps the rest
\* and is negative for a negative value
Carry(x) ==
  LET y0 == x[4]
      y1 == x[3] + y0 \div Limb
      y2 == x[2] + y1 \div Limb
  IN <<x[1] + y2 \div Limb, y2 % Limb, y1 % Limb, y0 % Limb>>

WSub(a, b) == Carry(<<a[1] - b[1], a[2] - b[2], a[3] - b[3], a[4] - b[4]>>)

BitLen(n) ==
  LET RECURSIVE B(_)
      B(k) == IF k = 0 THEN 0 ELSE 1 + B(k \div 2)
  IN B(n)

WBitLen(a) ==
  IF a[1] > 0 THEN 48 + BitLen(a[1])
  ELSE IF a[2] > 0 THEN 32 + BitLen(a[2])
  ELSE IF a[3] > 0 THEN 16 + BitLen(a[3])
  ELSE BitLen(a[4])

\* the float64 nearest to the magnitude a, ties to even
RoundDouble(a) ==
  LET p == WBitLen(a) - MantissaBits
  IN IF p <= 0 THEN a
     ELSE LET u == 2 ^ p
              q == a[4] \div u
              r == a[4] % u
              up == 2 * r > u \/ (2 * r = u /\ q % 2 = 1)
          IN Carry(<<a[1], a[2], a[3], (q + (IF up THEN 1 ELSE 0)) * u>>)

\* a number held at the full precision of a float64
Posix(neg, mag) == [t |-> "number", neg |-> neg, mag |-> mag]

\* 2208988800 seconds, NTP(1900) -> POSIX(1970)
NtpEpochOffset == <<33706, 32384, 0, 0>>

\* the elements of a timetag: an integer -(hi * 2^16 + lo) or
\* hi * 2^16 + lo, or something that is no number
Int32(neg, hi, lo) == [k |-> "int", neg |-> neg, hi |-> hi, lo |-> lo]
NotNum == [k |-> "undefined", neg |-> FALSE, hi |-> 0, lo |-> 0]

\* x >>> 0
ToUint32(e) ==
  IF e.k # "int" THEN <<0, 0>>
  ELSE IF ~e.neg THEN <<e.hi, e.lo>>
  ELSE IF e.lo = 0 THEN <<(Limb - e.hi) % Limb, 0>>
  ELSE <<Limb - 1 - e.hi, Limb - e.lo>>

\* the conversion without the step from the epoch of 1900 to that of 1970
NtpToPosixNoEpoch(sec, frac) ==
  Posix(FALSE, RoundDouble(<<sec[1], sec[2], frac[1], frac[2]>>))

\* ntp = sec + frac / 4294967296; posix = ntp - 2208988800, each operation
\* rounded to a float64 (the division by 2^32 is exact)
NtpToPosix(sec, frac) ==
  LET ntp == RoundDouble(<<sec[1], sec[2], frac[1], frac[2]>>)
      d == WSub(ntp, NtpEpochOffset)
  IN IF d[1] >= 0 THEN Posix(FALSE, RoundDouble(d))
     ELSE Posix(TRUE, RoundDouble(WSub(NtpEpochOffset, ntp)))

\* timetag objects: { raw: [sec, frac] }, { seconds, fractions }, an
\* object of neither shape, and one whose property access throws
RawTag(sec, frac) == [t |-> "object", shape |-> "raw", sec |-> sec, frac |-> frac]
FieldsTag(sec, frac) == [t |-> "object", shape |-> "fields", sec |-> sec, frac |-> frac]
OtherObject == [t |-> "object", shape |-> "other", sec |-> NotNum, frac |-> NotNum]
ThrowingObject == [t |-> "object", shape |-> "throws", sec |-> NotNum, frac |-> NotNum]

\* ------------------------------------------------------------------------
\* State
\* ------------------------------------------------------------------------
VARIABLES
  lastCpsApplied,   \* TempoSync._lastCpsApplied
  tempoModel,       \* TempoSync._tempoModel
  config,           \* atom.config 'pulsar-punctual.sonicLink.*'
  tsPc,             \* "idle", or "returned" right after an onDirtPlay call
  lastApplied,      \* history: the sample of the last accepted update
  call              \* history: what the onDirtPlay call just returned did

VARIABLES
  udpPort,          \* OscService.udpPort: 0 for null, else the UDPPort held
  sockets,          \* the osc.UDPPort objects created so far
  debug,            \* OscService.debug
  hooks,            \* whether OscService.hooks.onDirtPlay is a function
  count,            \* OscService._count
  lastHeaderErrAt,  \* OscService._lastHeaderErrAt
  clock,            \* Date.now(), in milliseconds
  oscPc,            \* "idle", or "returned" right after a call or handler
  stopped,          \* history: stop() has returned and start() was not called since
  warnTimes,        \* history: Date.now() of every header warning logged
  oscEv             \* history: what the call or handler just returned did

VARIABLES
  tag,              \* the argument of a timeTagToPosixSeconds call
  decoded           \* what the call returned, NotDecoded before it

VARIABLES
  prior             \* history: the onDirtPlay call that returned before the last one

VARIABLES
  host,             \* OscService.host
  port              \* OscService.port

VARIABLES
  received,         \* what a UDPPort hands to a listener of the service
  dispatched        \* the hooks.onDirtPlay calls the listener made, NotDispatched before it ran

VARIABLES
  isActive,         \* the package's isActive
  punctual,         \* whether Main.punctual holds an engine
  startsPending,    \* calls of Main.start() waiting at an await
  stopsPending,     \* calls of Main.stop() waiting at await this.audio.stop()
  toggled           \* history: what the toggle() that just ran did

VARIABLES
  masterGainNode,   \* whether AudioService.masterGainNode holds a node
  gainValue,        \* masterGainNode.gain.value, in hundredths
  masterVolume,     \* atom.config 'pulsar-punctual.masterVolume'
  timers,           \* the setTimeout callbacks of panic() not yet run
  audioClock,       \* the time in milliseconds
  evalsPending,     \* the calls of panic() waiting at await evaluateFn(...)
  level,            \* history: the volume start() or setMasterVolume() last set
  volEv,            \* history: the volume call that just ran and what it returned
  built             \* history: the last call of buildForeignTempoCandidates and its result

VARIABLES
  list,             \* ConsoleView.list: its child elements, oldest first
  added,            \* history: the items appended so far; an item is its arrival number
  dropped           \* history: the addMessage calls that appended nothing

VARIABLES
  buffer,           \* the lines of the editor's buffer, row 0 first
  cursorRow,        \* cursor.getBufferRow() of the editor's last cursor
  range             \* what getCurrentParagraphIncludingComments returned, NoRange before

VARIABLES
  starts,           \* the calls of Main.start(): where each stands and what it created
  stops,            \* the calls of Main.stop(): where each stands
  contexts,         \* the AudioContext objects created so far and their state
  audioContext,     \* AudioService.audioContext: 0 for null, else the context held
  canvas,           \* Main.canvas: 0 for null, else the start() that created it
  animationLoop,    \* Main.animationLoop: 0 for null, else the start() that created it
  oscService,       \* Main.oscService: 0 for null, else the start() that created it
  engine,           \* Main.punctual: 0 for null, else the start() that created it
  invoked           \* history: the calls of start() and stop() made so far

tempoVars == <<lastCpsApplied, tempoModel, config, tsPc, lastApplied, call>>
oscVars == <<udpPort, sockets, debug, hooks, count, lastHeaderErrAt, clock,
             oscPc, stopped, warnTimes, oscEv>>
tagVars == <<tag, decoded>>
lifeVars == <<host, port>>
dispatchVars == <<received, dispatched>>
packageVars == <<isActive, punctual, startsPending, stopsPending, toggled>>
audioVars == <<masterGainNode, gainValue, masterVolume, timers, audioClock,
               evalsPending, level, volEv>>
\* what the actions of TempoSync, OscService and timeTagToPosixSeconds
\* never touch
consoleVars == <<list, added, dropped>>
\* the parts added last
paraVars == <<buffer, cursorRow, range>>
sessionVars == <<starts, stops, contexts, audioContext, canvas, animationLoop,
                 oscService, engine, invoked>>
laterVars == <<consoleVars, paraVars, sessionVars>>
restOfConsole == <<prior, built, lifeVars, dispatchVars, packageVars, audioVars,
                   paraVars, sessionVars>>
restOfPara == <<prior, built, lifeVars, dispatchVars, packageVars, audioVars,
                consoleVars, sessionVars>>
\* what a session leaves alone: of the audio service, all but the gain node
restOfSession == <<prior, built, lifeVars, dispatchVars, consoleVars, paraVars,
                   masterVolume, timers, audioClock, evalsPending, volEv>>
extVars == <<prior, built, lifeVars, dispatchVars, packageVars, audioVars,
             laterVars>>
\* what the actions of one part leave alone of the other parts
restOfPackage == <<prior, built, lifeVars, dispatchVars, audioVars, laterVars>>
restOfAudio == <<prior, built, lifeVars, dispatchVars, packageVars, laterVars>>
restOfDispatch == <<prior, built, lifeVars, packageVars, audioVars, laterVars>>
restOfLife == <<prior, built, dispatchVars, packageVars, audioVars, laterVars>>
restOfPrior == <<built, lifeVars, dispatchVars, packageVars, audioVars, laterVars>>
restOfBuilt == <<prior, lifeVars, dispatchVars, packageVars, audioVars, laterVars>>
vars == <<lastCpsApplied, tempoModel, config, tsPc, lastApplied, call,
          udpPort, sockets, debug, hooks, count, lastHeaderErrAt, clock,
          oscPc, stopped, warnTimes, oscEv, tag, decoded,
          prior, built, host, port, received, dispatched,
          isActive, punctual, startsPending, stopsPending, toggled,
          masterGainNode, gainValue, masterVolume, timers, audioClock,
          evalsPending, level, volEv, list, added, dropped,
          buffer, cursorRow, range,
          starts, stops, contexts, audioContext, canvas, animationLoop,
          oscService, engine, invoked>>

\* ------------------------------------------------------------------------
\* TempoSync: pure functions
\* ------------------------------------------------------------------------

\* timeTagToPosixSeconds(tt): POSIX seconds, or null
TimeTagToPosixSeconds(tt) ==
  IF ~Truthy(tt) THEN Null
  ELSE IF IsFiniteNumber(tt) THEN tt
  ELSE IF tt.t = "numstring" THEN Num(tt.v)
  ELSE IF tt.t # "object" THEN Null
  ELSE IF tt.shape = "throws" THEN Null
  ELSE IF tt.shape = "raw"
  THEN NtpToPosix(ToUint32(tt.sec), ToUint32(tt.frac))
  ELSE IF tt.shape = "fields" /\ tt.sec.k = "int" /\ tt.frac.k = "int"
  THEN NtpToPosix(ToUint32(tt.sec), ToUint32(tt.frac))
  ELSE Null

\* the numerator over One of a number; a float64 of NtpToPosix is cut to
\* the grid (the timetags handed to onDirtPlay lie on it)
NumeratorOf(x) ==
  IF "v" \in DOMAIN x THEN x.v
  ELSE (IF x.neg THEN -1 ELSE 1)
         * ((x.mag[1] * Limb + x.mag[2]) * One + (x.mag[3] * One) \div Limb)

\* a || b on JavaScript values
JsOr(a, b) == IF Truthy(a) THEN a ELSE b

\* Number(x) for the values a configuration key can hold
ToNumber(x) == IF x.t = "number" THEN x ELSE NaN

GCD(a, b) ==
  LET RECURSIVE G(_, _)
      G(x, y) == IF y = 0 THEN x ELSE G(y, x % y)
  IN G(a, b)

\* x * scale cut to its integer part instead of rounded
RoundScaledTrunc(x, scale) ==
  LET g == GCD(scale, One)
      n == scale \div g
      d == One \div g
  IN IF x >= 0 THEN (x * n) \div d ELSE -((-x * n) \div d)

\* Math.round(x * scale) for x >= 0 or x < 0: floor(x * scale + 1/2).
\* x is a numerator over One; scale / One is reduced first so that the
\* product stays within the integers of the checker.
RoundScaled(x, scale) ==
  LET g == GCD(scale, One)
      n == scale \div g
      d == One \div g
  IN (2 * x * n + d) \div (2 * d)

FreqScale == 1000
CountScale == 1000000

SimpleCandidate(cps) == [kind |-> "simple", freq |-> cps]

PreciseCandidate(cps, cycle, timeSec) ==
  IF IsFiniteNumber(cycle)
  THEN [kind |-> "precise",
        freqNumerator |-> RoundScaled(cps, FreqScale),
        freqDenominator |-> FreqScale,
        time |-> timeSec,
        countNumerator |-> RoundScaled(cycle.v, CountScale),
        countDenominator |-> CountScale]
  ELSE [kind |-> "precise",
        freqNumerator |-> RoundScaled(cps, FreqScale),
        freqDenominator |-> FreqScale,
        time |-> timeSec,
        countNumerator |-> 0,
        countDenominator |-> 1]

\* Number.MAX_VALUE: a finite number whose product with 1000 or 1000000
\* is Infinity
MaxValue == [t |-> "max", v |-> 0]
IsFinite(x) == x.t \in {"number", "max"}

\* BigInt(Math.round(x * scale)) throws a RangeError when x * scale is NaN
\* or infinite
ToBigIntThrows(x) == x.t # "number"

\* the number x as the fields of a candidate hold it: its numerator when
\* it is on the grid
FreqOf(x) == IF x.t = "number" THEN x.v ELSE x

\* the try block of buildForeignTempoCandidates: what it pushes.  An
\* exception of BigInt is caught before anything is pushed.
TryPrecise(cps, cycle, timeSec, bigInt) ==
  IF ~bigInt THEN <<>>
  ELSE IF ToBigIntThrows(cps) THEN <<>>
  ELSE IF IsFinite(cycle) /\ ToBigIntThrows(cycle) THEN <<>>
  ELSE <<PreciseCandidate(cps.v, cycle, timeSec)>>

\* buildForeignTempoCandidates(cps, cycle, timeSec) for any number cps
Candidates(cps, cycle, timeSec, bigInt) ==
  TryPrecise(cps, cycle, timeSec, bigInt) \o <<SimpleCandidate(FreqOf(cps))>>

\* buildForeignTempoCandidates(cps, cycle, timeSec) as onDirtPlay calls it,
\* with a finite cps on the grid; bigInt is typeof BigInt !== 'undefined'
BuildForeignTempoCandidates(cps, cycle, timeSec, bigInt) ==
  Candidates(Num(cps), cycle, timeSec, bigInt)

\* the comparison with an epsilon of one cycle per second
WithinCpsEpsLoose(a, b) == Abs(a - b) <= One

\* |a - b| < 1e-9 for numerators over One
CpsEpsInv == 1000000000
WithinCpsEps(a, b) == Abs(a - b) <= (One - 1) \div CpsEpsInv

IsModel(m) == m # Null

\* computeUpdateDecision that takes a missing model as nothing to compare
\* with: no tempo change and no initial alignment
ComputeUpdateDecisionNoAnchor(m, l, cps, cycle, msgTimeSec, phaseSyncEnabled, phaseTolerance) ==
  LET hasCycle == IsFiniteNumber(cycle)
      cpsChanged == IsModel(m) /\ ~WithinCpsEps(cps, m.freq.v)
      wrapped == WrapHalf(m.count.v + ((msgTimeSec - m.timeSec.v) * m.freq.v) \div One
                            - cycle.v)
      inPhase == phaseSyncEnabled /\ hasCycle /\ IsModel(m)
  IN [shouldUpdate |-> (cpsChanged \/ (inPhase /\ Abs(wrapped) > phaseTolerance)),
      hasCycle |-> hasCycle,
      phaseDrift |-> IF inPhase THEN wrapped ELSE 0]

\* computeUpdateDecision(cps, cycle, msgTimeSec, phaseSyncEnabled,
\* phaseTolerance) read against the retained model m and last cps l
ComputeUpdateDecision(m, l, cps, cycle, msgTimeSec, phaseSyncEnabled, phaseTolerance) ==
  LET lastCps == IF IsModel(m) /\ TypeofNumber(m.freq) THEN m.freq ELSE l
      cpsChanged == ~(lastCps.t \notin {"null", "undefined"}
                      /\ lastCps.t = "number"
                      /\ WithinCpsEps(cps, lastCps.v))
      hasCycle == IsFiniteNumber(cycle)
      usable == IsModel(m) /\ TypeofNumber(m.freq) /\ TypeofNumber(m.timeSec)
                  /\ TypeofNumber(m.count)
      predicted == m.count.v + ((msgTimeSec - m.timeSec.v) * m.freq.v) \div One
      wrapped == WrapHalf(predicted - cycle.v)
      inPhase == phaseSyncEnabled /\ hasCycle
      phaseDrift == IF inPhase /\ usable THEN wrapped ELSE 0
      needPhaseRealign ==
        IF inPhase
        THEN IF usable THEN Abs(wrapped) > phaseTolerance ELSE TRUE
        ELSE FALSE
  IN [shouldUpdate |-> (cpsChanged \/ needPhaseRealign),
      hasCycle |-> hasCycle,
      phaseDrift |-> phaseDrift]

\* The error punctual.setTempo throws for a candidate it rejects
RejectionOf(ft) == IF ft.kind = "precise" THEN "reject-precise" ELSE "reject-simple"

\* tryApplyTempo without the return inside the loop: every candidate is
\* handed to setTempo
TryApplyTempoNoStop(accepts, candidates) ==
  [applied |-> \E i \in 1..Len(candidates) : candidates[i].kind \in accepts,
   lastErr |-> "null",
   calls |-> candidates]

\* tryApplyTempo that gives up at the first rejection: the return sits in
\* the catch block as well
TryApplyTempoFirstOnly(accepts, candidates) ==
  IF candidates[1].kind \in accepts
  THEN [applied |-> TRUE, lastErr |-> "null", calls |-> <<candidates[1]>>]
  ELSE [applied |-> FALSE, lastErr |-> RejectionOf(candidates[1]),
        calls |-> <<candidates[1]>>]

\* tryApplyTempo(punctual, candidates); accepts is the set of candidate
\* shapes this build of the engine takes.  calls is the sequence of
\* candidates handed to setTempo.
TryApplyTempo(accepts, candidates) ==
  LET RECURSIVE Loop(_, _, _)
      Loop(i, calls, lastErr) ==
        IF i > Len(candidates)
        THEN [applied |-> FALSE, lastErr |-> lastErr, calls |-> calls]
        ELSE IF candidates[i].kind \in accepts
             THEN [applied |-> TRUE, lastErr |-> "null",
                   calls |-> Append(calls, candidates[i])]
             ELSE Loop(i + 1, Append(calls, candidates[i]), RejectionOf(candidates[i]))
  IN Loop(1, <<>>, "null")

\* ------------------------------------------------------------------------
\* TempoSync.onDirtPlay
\* ------------------------------------------------------------------------
DefaultPhaseTolerance == One \div 64

\* Number(atom.config.get('...phaseTolerance') || 1/64)
PhaseTolerance(cfg) ==
  ToNumber(JsOr(cfg.phaseTolerance, Num(DefaultPhaseTolerance))).v

\* rawLead = Number(atom.config.get('...phaseLeadCycles') ?? 0), replaced
\* by 0 when not finite, then normalised
LeadCycles(cfg) ==
  LET got == cfg.phaseLeadCycles
      rawLead == ToNumber(IF got.t \in {"null", "undefined"} THEN Num(0) ELSE got)
      lead == IF IsFiniteNumber(rawLead) THEN rawLead.v ELSE 0
  IN WrapHalf(lead)

\* effectiveCycle = hasCycle ? cycle + leadCycles : undefined
EffectiveCycle(hasCycle, cycle, leadCycles) ==
  IF hasCycle THEN Num(cycle.v + leadCycles) ELSE Undefined

\* _tempoModel = {freq, timeSec, count: effectiveCycle} without the
\* branch on hasCycle
StoreModelNoElse(m, cps, msgTimeSec, hasCycle, effectiveCycle) ==
  [freq |-> Num(cps), timeSec |-> Num(msgTimeSec), count |-> effectiveCycle]

\* the record of an accepted update that keeps the previous count even
\* when the sample carries a cycle
StoreModelKeepCount(m, cps, msgTimeSec, hasCycle, effectiveCycle) ==
  LET prevCount == IF m # Null /\ m.count.t = "number" THEN m.count ELSE Num(0)
  IN [freq |-> Num(cps), timeSec |-> Num(msgTimeSec), count |-> prevCount]

\* the record of an accepted update whose else branch forgets prevCount
StoreModelZeroCount(m, cps, msgTimeSec, hasCycle, effectiveCycle) ==
  IF hasCycle
  THEN [freq |-> Num(cps), timeSec |-> Num(msgTimeSec), count |-> effectiveCycle]
  ELSE [freq |-> Num(cps), timeSec |-> Num(msgTimeSec), count |-> Num(0)]

\* The record stored in _tempoModel after an accepted update
StoreModel(m, cps, msgTimeSec, hasCycle, effectiveCycle) ==
  IF hasCycle
  THEN [freq |-> Num(cps), timeSec |-> Num(msgTimeSec), count |-> effectiveCycle]
  ELSE LET prevCount == IF IsModel(m) /\ TypeofNumber(m.count) THEN m.count ELSE Num(0)
       IN [freq |-> Num(cps), timeSec |-> Num(msgTimeSec), count |-> prevCount]

\* _lastCpsApplied = cps assigned before the test of applied
CommitCpsAlways(applied, m, l, cps, newModel) ==
  IF applied
  THEN [lastCpsApplied |-> Num(cps), tempoModel |-> newModel]
  ELSE [lastCpsApplied |-> Num(cps), tempoModel |-> m]

\* _tempoModel assigned before the test of applied
CommitModelAlways(applied, m, l, cps, newModel) ==
  [lastCpsApplied |-> IF applied THEN Num(cps) ELSE l, tempoModel |-> newModel]

\* if (applied) { _lastCpsApplied = cps; _tempoModel = ... } else { log }
Commit(applied, m, l, cps, newModel) ==
  IF applied
  THEN [lastCpsApplied |-> Num(cps), tempoModel |-> newModel]
  ELSE [lastCpsApplied |-> l, tempoModel |-> m]

LogSet(cls) == [text |-> "CPS set", reason |-> "", cls |-> cls]
LogRealigned(cls) == [text |-> "CPS set; phase realigned", reason |-> "", cls |-> cls]
LogFailed(reason) == [text |-> "Failed to set CPS", reason |-> reason, cls |-> "text-error"]

\* The calls of the log callback and whether an exception leaves
\* onDirtPlay: a throw of log inside the try block lands in the catch
\* block, which calls log once more outside any try.
LogOutcome(first, logThrows) ==
  IF logThrows
  THEN [logs |-> <<first, LogFailed("log-threw")>>, threw |-> TRUE]
  ELSE [logs |-> <<first>>, threw |-> FALSE]

NoCall ==
  [stage |-> "none", evt |-> Null, punctual |-> FALSE,
   timeTag |-> Undefined, now |-> 0,
   cps |-> 0, cycle |-> Undefined, msgTimeSec |-> 0,
   accepts |-> {}, shouldUpdate |-> FALSE, hasCycle |-> FALSE,
   phaseDrift |-> 0, rawDrift |-> 0, wrapped |-> FALSE,
   leadCycles |-> 0, effectiveCycle |-> Undefined,
   candidates |-> <<>>, setTempoCalls |-> <<>>, lastErr |-> "null",
   logs |-> <<>>, threw |-> FALSE]

\* the guard without the test cps > 0
ActionableAnySign(evt, hasEngine) ==
  evt # Null /\ hasEngine /\ IsFiniteNumber(evt.cps)

\* if (!evt) return
\* if (!(punctual && typeof cps === 'number' && isFinite(cps) && cps > 0)) return
Actionable(evt, hasEngine) ==
  evt # Null /\ hasEngine /\ IsFiniteNumber(evt.cps) /\ evt.cps.v > 0

\* predicted - cycle before the wrap, when computeUpdateDecision takes the
\* branch of tempo-sync.js:153-159 (history only)
RawDrift(m, cycle, msgTimeSec) ==
  m.count.v + ((msgTimeSec - m.timeSec.v) * m.freq.v) \div One - cycle.v

\* onDirtPlay(evt, timeTag, punctual, log) on retained state (m, l).
\* in.now is what nowPosixSeconds() returns, in.accepts and in.bigInt
\* describe the engine build, in.logThrows the log callback.
OnDirtPlayResult(m, l, cfg, in) ==
  LET ignored == [call |-> [NoCall EXCEPT !.stage = "ignored"],
                  tempoModel |-> m, lastCpsApplied |-> l]
  IN
  IF ~Actionable(in.evt, in.punctual) THEN ignored
  ELSE
    LET cps == in.evt.cps.v
        cycle == in.evt.cycle
        msgTimeSec == NumeratorOf(JsOr(TimeTagToPosixSeconds(in.timeTag), Num(in.now)))
        phaseSyncEnabled == cfg.phaseSyncEnabled
        phaseTolerance == PhaseTolerance(cfg)
        dec == ComputeUpdateDecision(m, l, cps, cycle, msgTimeSec,
                                     phaseSyncEnabled, phaseTolerance)
        didWrap == phaseSyncEnabled /\ dec.hasCycle /\ IsModel(m)
        seen == [NoCall EXCEPT !.cps = cps, !.cycle = cycle,
                               !.msgTimeSec = msgTimeSec,
                               !.shouldUpdate = dec.shouldUpdate,
                               !.hasCycle = dec.hasCycle,
                               !.phaseDrift = dec.phaseDrift,
                               !.wrapped = didWrap,
                               !.rawDrift = IF didWrap
                                            THEN RawDrift(m, cycle, msgTimeSec)
                                            ELSE 0]
    IN
    IF ~dec.shouldUpdate
    THEN [call |-> [seen EXCEPT !.stage = "noUpdate"],
          tempoModel |-> m, lastCpsApplied |-> l]
    ELSE
      LET leadCycles == LeadCycles(cfg)
          effectiveCycle == EffectiveCycle(dec.hasCycle, cycle, leadCycles)
          candidates == BuildForeignTempoCandidates(cps, effectiveCycle,
                                                    msgTimeSec, in.bigInt)
          res == TryApplyTempo(in.accepts, candidates)
          newModel == StoreModel(m, cps, msgTimeSec, dec.hasCycle, effectiveCycle)
          kept == Commit(res.applied, m, l, cps, newModel)
          realigned == phaseSyncEnabled /\ dec.hasCycle
                         /\ Abs(dec.phaseDrift) > phaseTolerance
          first == IF res.applied
                   THEN IF realigned THEN LogRealigned("text-info")
                                     ELSE LogSet("text-info")
                   ELSE LogFailed(res.lastErr)
          out == LogOutcome(first, in.logThrows)
      IN [call |-> [seen EXCEPT !.stage = IF res.applied THEN "applied" ELSE "failed",
                                !.accepts = in.accepts \cap {"precise", "simple"},
                                !.leadCycles = leadCycles,
                                !.effectiveCycle = effectiveCycle,
                                !.candidates = candidates,
                                !.setTempoCalls = res.calls,
                                !.lastErr = res.lastErr,
                                !.logs = out.logs,
                                !.threw = out.threw],
          tempoModel |-> kept.tempoModel,
          lastCpsApplied |-> kept.lastCpsApplied]

\* ------------------------------------------------------------------------
\* Inputs
\* ------------------------------------------------------------------------
ValidCps == {Num(k * One) : k \in 1..MaxCps}
CycleInputs == {Num(k * (One \div 4)) : k \in 0..MaxCycleQuarters} \cup {Undefined}
Seconds == {k * One : k \in 1..MaxTime}

\* timetag and clock reading of one call
TimeInputs ==
  {[timeTag |-> Num(t), now |-> One] : t \in Seconds}
    \cup {[timeTag |-> Undefined, now |-> t] : t \in Seconds}
    \cup {[timeTag |-> Num(0), now |-> One]}

\* engine builds: with BigInt the engine may take either shape, without
\* it only the Simple candidate is ever offered
EngineInputs ==
  {[bigInt |-> TRUE, accepts |-> a] : a \in SUBSET {"precise", "simple"}}
    \cup {[bigInt |-> FALSE, accepts |-> a] : a \in SUBSET {"simple"}}

ActionableInputs ==
  {[evt |-> [cps |-> c, cycle |-> y], timeTag |-> ti.timeTag, now |-> ti.now,
    punctual |-> TRUE, bigInt |-> e.bigInt, accepts |-> e.accepts,
    logThrows |-> lt] :
     c \in ValidCps, y \in CycleInputs, ti \in TimeInputs, e \in EngineInputs,
     lt \in BOOLEAN}

\* events onDirtPlay returns from at once
IgnoredInputs ==
  {[evt |-> Null, timeTag |-> Undefined, now |-> One, punctual |-> TRUE,
    bigInt |-> TRUE, accepts |-> {"precise", "simple"}, logThrows |-> FALSE]}
    \cup
  {[evt |-> [cps |-> c, cycle |-> Num(0)], timeTag |-> Undefined, now |-> One,
    punctual |-> TRUE, bigInt |-> TRUE, accepts |-> {"precise", "simple"},
    logThrows |-> FALSE] : c \in {Num(0), Num(-One), NaN, Undefined, Str}}
    \cup
  {[evt |-> [cps |-> Num(One), cycle |-> Num(0)], timeTag |-> Undefined,
    now |-> One, punctual |-> FALSE, bigInt |-> TRUE,
    accepts |-> {"precise", "simple"}, logThrows |-> FALSE]}

DirtPlayInputs == ActionableInputs \cup IgnoredInputs

Configs ==
  [phaseSyncEnabled : BOOLEAN,
   phaseTolerance : {Undefined, Num(One \div 4)},
   phaseLeadCycles : {Undefined, Num(One \div 4), Num(3 * Half)}]

\* ------------------------------------------------------------------------
\* Specification of TempoSync
\* ------------------------------------------------------------------------
NoSample == [cps |-> 0, cycle |-> Undefined, msgTimeSec |-> 0]
SampleOf(c) == [cps |-> c.cps, cycle |-> c.cycle, msgTimeSec |-> c.msgTimeSec]

TempoInit ==
  /\ lastCpsApplied = Null
  /\ tempoModel = Null
  /\ config \in Configs
  /\ tsPc = "idle"
  /\ lastApplied = NoSample
  /\ call = NoCall

\* One /dirt/play event handed to onDirtPlay, run to its return
OnDirtPlay ==
  /\ tsPc = "idle"
  /\ \E in \in DirtPlayInputs :
       \E r \in {OnDirtPlayResult(tempoModel, lastCpsApplied, config, in)} :
          /\ tempoModel' = r.tempoModel
          /\ lastCpsApplied' = r.lastCpsApplied
          /\ call' = r.call
          /\ lastApplied' = IF r.call.stage = "applied" THEN SampleOf(r.call)
                            ELSE lastApplied
  /\ tsPc' = "returned"
  /\ UNCHANGED config
  /\ UNCHANGED oscVars
  /\ UNCHANGED tagVars
  /\ UNCHANGED extVars

\* timetags of every shape with the clock reading of the call: numbers,
\* numeric strings, both NTP shapes (at the epoch, and t or t + 1/2
\* seconds after it) and values that decode to nothing
TaggedTimeInputs ==
  [timeTag : {Num(t) : t \in Seconds}
               \cup {Num(0), NumStr(0), NumStr(3 * Half), Str, NaN, Undefined, Null,
                     OtherObject}
               \cup {RawTag(Int32(FALSE, NtpEpochOffset[1], NtpEpochOffset[2] + t),
                            Int32(FALSE, h, 0)) :
                       t \in 0..MaxTime, h \in {0, Limb \div 2}}
               \cup {FieldsTag(Int32(FALSE, NtpEpochOffset[1], NtpEpochOffset[2] + t),
                               Int32(FALSE, 0, 0)) : t \in 0..1},
   now : Seconds]

TaggedInputs ==
  {[evt |-> [cps |-> c, cycle |-> y], timeTag |-> ti.timeTag, now |-> ti.now,
    punctual |-> TRUE, bigInt |-> TRUE, accepts |-> a, logThrows |-> FALSE] :
     c \in ValidCps, y \in {Undefined, Num(0)}, ti \in TaggedTimeInputs,
     a \in {{"precise", "simple"}, {}}}

\* One /dirt/play event whose timetag has any shape; the timetag and the
\* clock reading are kept with the record of the call
OnDirtPlayTagged ==
  /\ tsPc = "idle"
  /\ \E in \in TaggedInputs :
       \E r \in {OnDirtPlayResult(tempoModel, lastCpsApplied, config, in)} :
          /\ tempoModel' = r.tempoModel
          /\ lastCpsApplied' = r.lastCpsApplied
          /\ call' = [r.call EXCEPT !.timeTag = in.timeTag, !.now = in.now]
          /\ lastApplied' = IF r.call.stage = "applied" THEN SampleOf(r.call)
                            ELSE lastApplied
  /\ tsPc' = "returned"
  /\ UNCHANGED config
  /\ UNCHANGED oscVars
  /\ UNCHANGED tagVars
  /\ UNCHANGED extVars

\* events of every kind, with and without an engine attached
GuardInputs ==
  {[evt |-> ev, timeTag |-> Undefined, now |-> t, punctual |-> p,
    bigInt |-> TRUE, accepts |-> a, logThrows |-> FALSE] :
     ev \in {Null} \cup
            [cps : ValidCps \cup {Num(0), Num(-One), NaN, Infinity, Undefined,
                                  Null, Str, NumStr(One)},
             cycle : {Undefined, Num(0)}],
     t \in Seconds, p \in BOOLEAN, a \in {{"precise", "simple"}, {}}}

\* One event of any kind handed to onDirtPlay; the event and the engine
\* argument are kept with the record of the call
OnDirtPlayGuarded ==
  /\ tsPc = "idle"
  /\ \E in \in GuardInputs :
       \E r \in {OnDirtPlayResult(tempoModel, lastCpsApplied, config, in)} :
          /\ tempoModel' = r.tempoModel
          /\ lastCpsApplied' = r.lastCpsApplied
          /\ call' = [r.call EXCEPT !.evt = in.evt, !.punctual = in.punctual]
          /\ lastApplied' = IF r.call.stage = "applied" THEN SampleOf(r.call)
                            ELSE lastApplied
  /\ tsPc' = "returned"
  /\ UNCHANGED config
  /\ UNCHANGED oscVars
  /\ UNCHANGED tagVars
  /\ UNCHANGED extVars

\* ------------------------------------------------------------------------
\* Specification of buildForeignTempoCandidates
\* ------------------------------------------------------------------------
NotBuilt ==
  [ran |-> FALSE, cps |-> Undefined, cycle |-> Undefined, timeSec |-> 0,
   bigInt |-> FALSE, candidates |-> <<>>]

\* cps off the grid of thousandths, on it, at a tie of the rounding, and
\* the numbers that have no BigInt
CandidateCps ==
  {Num(n) : n \in {-8, 0, 1, 8, 24, One, One + 1, One + 8, MaxCps * One}}
    \cup {NaN, Infinity, MaxValue}
\* no cycle, cycles at a tie of the rounding on both sides of 0, and the
\* numbers that are not finite or have no BigInt
CandidateCycles ==
  {Undefined, NaN, Infinity, MaxValue}
    \cup {Num(n) : n \in {-One - 1, -1, 0, 1, 3, One + 3}}
CandidateInputs ==
  [cps : CandidateCps, cycle : CandidateCycles, timeSec : Seconds,
   bigInt : BOOLEAN]

\* One call of buildForeignTempoCandidates
BuildCandidates ==
  /\ \E in \in CandidateInputs :
       built' = [ran |-> TRUE, cps |-> in.cps, cycle |-> in.cycle,
                 timeSec |-> in.timeSec, bigInt |-> in.bigInt,
                 candidates |-> Candidates(in.cps, in.cycle, in.timeSec,
                                           in.bigInt)]
  /\ UNCHANGED tempoVars
  /\ UNCHANGED oscVars
  /\ UNCHANGED tagVars
  /\ UNCHANGED restOfBuilt

\* ------------------------------------------------------------------------
\* Specification of TempoSync: calls in a row
\* ------------------------------------------------------------------------
\* what is kept of the call before: how it ended and its sample
NoPrior == [stage |-> "none", cps |-> 0, cycle |-> Undefined, msgTimeSec |-> 0]
PriorOf(c) ==
  [stage |-> c.stage, cps |-> c.cps, cycle |-> c.cycle, msgTimeSec |-> c.msgTimeSec]

\* message times, one of them half a second after the first
HalfSeconds == Seconds \cup {One + Half}

\* samples at these times, for an engine that takes every candidate or
\* none
SampleInputs ==
  {[evt |-> [cps |-> c, cycle |-> y], timeTag |-> Undefined, now |-> t,
    punctual |-> TRUE, bigInt |-> TRUE, accepts |-> a, logThrows |-> FALSE] :
     c \in ValidCps, y \in {Undefined, Num(0)}, t \in HalfSeconds,
     a \in {{"precise", "simple"}, {}}}

\* One sample handed to onDirtPlay, run to its return
OnDirtPlaySample ==
  /\ tsPc = "idle"
  /\ \E in \in SampleInputs :
       \E r \in {OnDirtPlayResult(tempoModel, lastCpsApplied, config, in)} :
          /\ tempoModel' = r.tempoModel
          /\ lastCpsApplied' = r.lastCpsApplied
          /\ call' = r.call
          /\ lastApplied' = IF r.call.stage = "applied" THEN SampleOf(r.call)
                            ELSE lastApplied
  /\ tsPc' = "returned"
  /\ UNCHANGED config
  /\ UNCHANGED oscVars
  /\ UNCHANGED tagVars
  /\ UNCHANGED extVars

\* The settings onDirtPlay reads on every call are changed between calls
SettingsChange ==
  /\ tsPc = "idle"
  /\ config' \in Configs \ {config}
  /\ UNCHANGED <<lastCpsApplied, tempoModel, tsPc, lastApplied, call>>
  /\ UNCHANGED oscVars
  /\ UNCHANGED tagVars
  /\ UNCHANGED extVars

\* The caller goes on; the outcome and the sample of the call are kept
ReturnNoting ==
  /\ tsPc = "returned"
  /\ tsPc' = "idle"
  /\ prior' = PriorOf(call)
  /\ call' = NoCall
  /\ UNCHANGED <<lastCpsApplied, tempoModel, config, lastApplied>>
  /\ UNCHANGED oscVars
  /\ UNCHANGED tagVars
  /\ UNCHANGED restOfPrior

\* The caller goes on; the record of the call is dropped
Return ==
  /\ tsPc = "returned"
  /\ tsPc' = "idle"
  /\ call' = NoCall
  /\ UNCHANGED <<lastCpsApplied, tempoModel, config, lastApplied>>
  /\ UNCHANGED oscVars
  /\ UNCHANGED tagVars
  /\ UNCHANGED extVars

\* ------------------------------------------------------------------------
\* Properties of TempoSync
\* ------------------------------------------------------------------------
\* the step in which an onDirtPlay call runs
CallStep == tsPc = "idle" /\ tsPc' = "returned"
Returned == tsPc = "returned"

\* C1: No-op stability.  Once a sample (cps, cycle, time) has been applied,
\* a later sample with the same cps, cycle and time yields shouldUpdate =
\* false and makes no setTempo call, whatever the configuration.
C1_NoOpStability ==
  [][(CallStep /\ lastApplied # NoSample /\ call'.stage # "ignored"
        /\ SampleOf(call') = lastApplied)
       => (~call'.shouldUpdate /\ call'.setTempoCalls = <<>>)]_vars

\* every candidate of the update was rejected by the engine
AllRejected(c) ==
  /\ c.candidates # <<>>
  /\ \A i \in 1..Len(c.candidates) : c.candidates[i].kind \notin c.accepts

LastCandidate(c) == c.candidates[Len(c.candidates)]

\* C2: If the engine rejects every candidate of an update, onDirtPlay
\* leaves _tempoModel and _lastCpsApplied as they were before the sample
\* and logs one error, which carries the last rejection reason.
C2_FailedApplyKeepsState ==
  [][(CallStep /\ AllRejected(call'))
       => /\ tempoModel' = tempoModel
          /\ lastCpsApplied' = lastCpsApplied
          /\ call'.logs # <<>>
          /\ call'.logs[1] = LogFailed(RejectionOf(LastCandidate(call')))
          /\ Cardinality({i \in 1..Len(call'.logs) :
                            call'.logs[i].reason = RejectionOf(LastCandidate(call'))}) = 1
          /\ \A i \in 1..Len(call'.logs) : call'.logs[i].cls = "text-error"]_vars

C2_Witness ==
  /\ Returned
  /\ AllRejected(call)
  /\ Len(call.candidates) = 2
  /\ tempoModel # Null
  /\ tempoModel.freq # Num(call.cps)

\* C3: tryApplyTempo hands the candidates to setTempo in list order,
\* Precise before Simple, and stops at the first one accepted: nothing is
\* passed after the accepted one and at most one call per sample succeeds.
C3_ApplyInOrderStopAtFirst ==
  Returned =>
    LET calls == call.setTempoCalls
        n == Len(calls)
    IN /\ n <= Len(call.candidates)
       /\ \A i \in 1..n : calls[i] = call.candidates[i]
       /\ \A i \in 1..n : \A j \in 1..n :
            (calls[i].kind = "precise" /\ calls[j].kind = "simple") => i < j
       /\ \A i \in 1..n : (calls[i].kind \in call.accepts) => i = n
       /\ Cardinality({i \in 1..n : calls[i].kind \in call.accepts}) <= 1
       /\ (n < Len(call.candidates) /\ call.stage \in {"applied", "failed"})
            => calls[n].kind \in call.accepts

C3_Witness ==
  /\ Returned
  /\ call.stage = "applied"
  /\ Len(call.candidates) = 2
  /\ Len(call.setTempoCalls) = 1
  /\ call.accepts = {"precise", "simple"}

\* a complete TempoModel record
CompleteModel(m) ==
  /\ DOMAIN m = {"freq", "timeSec", "count"}
  /\ IsFiniteNumber(m.freq) /\ m.freq.v > 0
  /\ IsFiniteNumber(m.timeSec)
  /\ IsFiniteNumber(m.count)

\* C4: The TempoModel is absent or one complete record with numeric
\* frequency > 0, anchorTimeSec and cycleCount; an accepted update replaces
\* the whole record in one step, and no other operation (a failed, ignored
\* or unneeded sample) changes any field of it.
C4_ModelWholeOrAbsent ==
  /\ [](tempoModel = Null \/ CompleteModel(tempoModel))
  /\ [][tempoModel' # tempoModel
          => /\ CallStep
             /\ call'.stage = "applied"
             /\ tempoModel'.freq = Num(call'.cps)
             /\ tempoModel'.timeSec = Num(call'.msgTimeSec)
             /\ lastCpsApplied' = Num(call'.cps)]_vars

C4_Witness ==
  /\ Returned
  /\ call.stage = "applied"
  /\ ~call.hasCycle
  /\ tempoModel.count # Num(0)

\* C5: Phase wrap.  For every raw drift d = predicted - cycle the
\* phaseDrift that computeUpdateDecision returns lies in [-0.5, 0.5) and
\* differs from d by an integer.
C5_PhaseWrapHalfOpen ==
  (Returned /\ call.wrapped)
    => /\ -Half <= call.phaseDrift
       /\ call.phaseDrift < Half
       /\ (call.phaseDrift - call.rawDrift) % One = 0

\* C10: On a successful application of a sample that carries a cycle the
\* TempoModel becomes {frequency: cps, anchorTimeSec: msgTimeSec,
\* cycleCount: effectiveCycle}, whichever candidate was accepted.
C10_ModelAfterApplyWithCycle ==
  (Returned /\ call.stage = "applied" /\ IsFiniteNumber(call.cycle))
    => tempoModel = [freq |-> Num(call.cps),
                     timeSec |-> Num(call.msgTimeSec),
                     count |-> Num(call.cycle.v + call.leadCycles)]

C10_Witness ==
  /\ Returned
  /\ call.stage = "applied"
  /\ IsFiniteNumber(call.cycle)
  /\ call.leadCycles # 0
  /\ Len(call.setTempoCalls) = 2

C13_FirstSampleAnchors ==
  [][(CallStep /\ call'.stage # "ignored" /\ tempoModel = Null
        /\ config.phaseSyncEnabled /\ IsFiniteNumber(call'.cycle))
       => call'.shouldUpdate]_vars

C13_Witness ==
  /\ Returned
  /\ call.stage = "failed"
  /\ tempoModel = Null
  /\ lastApplied = NoSample
  /\ config.phaseSyncEnabled
  /\ config.phaseTolerance # Undefined
  /\ IsFiniteNumber(call.cycle)
  /\ call.shouldUpdate

\* the wrap of d into [-0.5, 0.5): the value congruent to d modulo 1
WrapIntoHalfOpen(d) == ((d + Half) % One) - Half

\* the tempo counts as changed: no tempo applied yet, or
\* |cps - previous.frequency| >= 1e-9 (on numerators over One: not equal)
CpsChangedFrom(prev, cps) == prev = Null \/ cps # prev.freq.v

\* C14: With phase sync enabled, a cycle present and a previous model,
\* shouldUpdate = cpsChanged OR |w| > phaseTolerance, where w is the wrap
\* of previous.cycleCount + (msgTimeSec - previous.anchorTimeSec) *
\* previous.frequency - cycle.  Model {2.0, 100.0, 10.0} with a sample at
\* time 101.0 and cycle 12.3 gives drift -0.3 and a realign at 1/64.
C14_DecisionWithModel ==
  /\ [][(CallStep /\ call'.stage # "ignored" /\ tempoModel # Null
          /\ config.phaseSyncEnabled /\ IsFiniteNumber(call'.cycle))
         => LET d == tempoModel.count.v
                       + ((call'.msgTimeSec - tempoModel.timeSec.v)
                            * tempoModel.freq.v) \div One
                       - call'.cycle.v
                w == WrapIntoHalfOpen(d)
            IN call'.shouldUpdate
                 = (CpsChangedFrom(tempoModel, call'.cps)
                      \/ Abs(w) > PhaseTolerance(config))]_vars
  /\ [](ComputeUpdateDecision(
          [freq |-> Num(2 * One), timeSec |-> Num(100 * One), count |-> Num(10 * One)],
          Num(2 * One), 2 * One, Num(12 * One + (3 * One) \div 10), 101 * One,
          TRUE, DefaultPhaseTolerance)
        = [shouldUpdate |-> TRUE, hasCycle |-> TRUE,
           phaseDrift |-> -((3 * One) \div 10)])

C14_Witness ==
  /\ Returned
  /\ call.stage = "noUpdate"
  /\ call.wrapped
  /\ call.rawDrift # call.phaseDrift
  /\ call.msgTimeSec # tempoModel.timeSec.v

C16_StateChangesOnlyOnApply ==
  [][/\ ((tempoModel' # tempoModel \/ lastCpsApplied' # lastCpsApplied)
          => (/\ CallStep
              /\ call'.stage = "applied"
              /\ call'.shouldUpdate
              /\ call'.setTempoCalls # <<>>
              /\ call'.setTempoCalls[Len(call'.setTempoCalls)].kind \in call'.accepts))
      /\ ((CallStep /\ call'.stage \in {"ignored", "noUpdate", "failed"})
          => (tempoModel' = tempoModel /\ lastCpsApplied' = lastCpsApplied))]_vars

C16_Witness ==
  /\ Returned
  /\ call.stage = "failed"
  /\ call.shouldUpdate
  /\ tempoModel # Null
  /\ call.hasCycle
  /\ tempoModel.count # call.effectiveCycle
  /\ tempoModel.freq # Num(call.cps)

\* C17: Whenever a sample with cycle information is applied, the cycle sent
\* to the engine and stored in the model is cycle + L, where L is the
\* configured phaseLeadCycles normalized into [-0.5, 0.5) and congruent to
\* it modulo 1 (0 when it is not finite), whether the update was triggered
\* by phase drift or by a frequency change.
C17_LeadNormalizedHalfOpen ==
  (Returned /\ call.stage = "applied" /\ call.hasCycle)
    => LET L == call.leadCycles
           configured == IF IsFiniteNumber(config.phaseLeadCycles)
                         THEN config.phaseLeadCycles.v ELSE 0
           sent == call.setTempoCalls[Len(call.setTempoCalls)]
       IN /\ -Half <= L
          /\ L < Half
          /\ (L - configured) % One = 0
          /\ call.effectiveCycle = Num(call.cycle.v + L)
          /\ tempoModel.count = Num(call.cycle.v + L)
          /\ sent.kind = "precise"
               => sent.countNumerator = RoundScaled(call.cycle.v + L, CountScale)

\* C18: onDirtPlay uses the local clock as msgTimeSec only when
\* timeTagToPosixSeconds yields no value; whenever the timetag decodes to a
\* number, that number is msgTimeSec (and the model's anchorTimeSec on
\* success); in neither case is an error logged.
C18_ClockOnlyWithoutTimetag ==
  (Returned /\ call.stage # "ignored")
    => LET d == TimeTagToPosixSeconds(call.timeTag)
       IN /\ d = Null => call.msgTimeSec = call.now
          /\ d # Null => call.msgTimeSec = NumeratorOf(d)
          /\ call.stage = "applied" => tempoModel.timeSec = Num(call.msgTimeSec)
          /\ call.stage \in {"noUpdate", "applied"}
               => \A i \in 1..Len(call.logs) : call.logs[i].cls # "text-error"

\* ------------------------------------------------------------------------
\* OscService: the osc.UDPPort objects
\* ------------------------------------------------------------------------
\* A UDPPort is "none" before it is created, "open" while its socket is
\* bound, "failed" when open() did not bind, "closed" after close().
\* listeners says whether the handlers of start() are registered on it.
DefaultHost == "127.0.0.1"
OtherHost == "0.0.0.0"
DefaultPort == 57121
OtherPort == 57122

NoSocket == [state |-> "none", listeners |-> FALSE, host |-> "", port |-> 0]
SocketIds == 1..MaxSockets
Created(socks) == {s \in SocketIds : socks[s].state # "none"}

\* How new osc.UDPPort(...) and open() can end
StartOutcomes == {"ok", "ctorThrows", "openThrows", "bindError"}

LogOpenFailed == "Failed to open OSC"
LogOscError == "OSC error"
LogHeaderWarning(dbg) ==
  IF dbg THEN "OSC warning (non-OSC datagram)" ELSE "OSC warning"

\* start() without its first line: a service that holds a socket makes
\* another one
StartOnNoGuard(up, socks, hst, prt, outcome) ==
  IF outcome = "ctorThrows"
  THEN [udpPort |-> up, sockets |-> socks, logs |-> <<LogOpenFailed>>, created |-> 0]
  ELSE
    LET id == Cardinality(Created(socks)) + 1
        st == IF outcome = "ok" THEN "open" ELSE "failed"
    IN [udpPort |-> id,
        sockets |-> [s \in SocketIds |->
                       IF s = id
                       THEN [state |-> st, listeners |-> TRUE,
                             host |-> hst, port |-> prt]
                       ELSE socks[s]],
        logs |-> IF outcome = "openThrows" THEN <<LogOpenFailed>> ELSE <<>>,
        created |-> id]

\* start(): the UDPPort is assigned to this.udpPort before the listeners
\* are registered and open() is called; the catch block only logs
StartOn(up, socks, hst, prt, outcome) ==
  IF up # 0
  THEN [udpPort |-> up, sockets |-> socks, logs |-> <<>>, created |-> 0]
  ELSE IF outcome = "ctorThrows"
  THEN [udpPort |-> 0, sockets |-> socks, logs |-> <<LogOpenFailed>>, created |-> 0]
  ELSE
    LET id == Cardinality(Created(socks)) + 1
        st == IF outcome = "ok" THEN "open" ELSE "failed"
    IN [udpPort |-> id,
        sockets |-> [socks EXCEPT ![id] = [state |-> st, listeners |-> TRUE,
                                           host |-> hst, port |-> prt]],
        logs |-> IF outcome = "openThrows" THEN <<LogOpenFailed>> ELSE <<>>,
        created |-> id]

\* stop() that only drops the reference
StopOnLeak(up, socks) ==
  [udpPort |-> 0, sockets |-> socks]

\* stop(): removeAllListeners(), close(), this.udpPort = null; an error
\* of close() (the socket was never bound) is swallowed
StopOn(up, socks) ==
  IF up = 0
  THEN [udpPort |-> 0, sockets |-> socks]
  ELSE [udpPort |-> 0,
        sockets |-> [socks EXCEPT ![up] =
                       [@ EXCEPT !.state = IF @ = "open" THEN "closed" ELSE @,
                                 !.listeners = FALSE]]]

\* The opts argument of restart: the keys it has and their values.  The
\* constructor options are host, port and debug; udpPort stands for a key
\* that names another field of the service (opts.udpPort is null).
OptKeys == {"host", "port", "debug", "udpPort"}
NoOpts == [keys |-> {}, host |-> DefaultHost, port |-> DefaultPort, debug |-> FALSE]
RestartOpts ==
  {o \in [keys : SUBSET OptKeys, host : {DefaultHost, OtherHost},
          port : {DefaultPort, OtherPort}, debug : BOOLEAN] :
     /\ "host" \notin o.keys => o.host = NoOpts.host
     /\ "port" \notin o.keys => o.port = NoOpts.port
     /\ "debug" \notin o.keys => o.debug = NoOpts.debug}
\* opts that at most set debug
DebugOpts ==
  {o \in RestartOpts : o.keys \subseteq {"debug"} /\ o.host = DefaultHost
                         /\ o.port = DefaultPort}

\* Object.assign(this, opts): every own key of opts is copied
ObjectAssign(up, hst, prt, dbg, opts) ==
  [udpPort |-> IF "udpPort" \in opts.keys THEN 0 ELSE up,
   host |-> IF "host" \in opts.keys THEN opts.host ELSE hst,
   port |-> IF "port" \in opts.keys THEN opts.port ELSE prt,
   debug |-> IF "debug" \in opts.keys THEN opts.debug ELSE dbg]

\* restart(opts): Object.assign(this, opts); this.stop(); this.start()
RestartOn(up, socks, hst, prt, dbg, opts, outcome) ==
  LET merged == ObjectAssign(up, hst, prt, dbg, opts)
      halted == StopOn(merged.udpPort, socks)
      r == StartOn(halted.udpPort, halted.sockets, merged.host, merged.port, outcome)
  IN [udpPort |-> r.udpPort, sockets |-> r.sockets, host |-> merged.host,
      port |-> merged.port, debug |-> merged.debug, logs |-> r.logs,
      created |-> r.created]

\* ------------------------------------------------------------------------
\* OscService: handlers
\* ------------------------------------------------------------------------
\* this.log = (msg, cls) => { try { logFn(msg, cls) } catch (_) {} }
\* without the try: the exception of logFn reaches the caller
ServiceLogThrowsNoCatch(logFnThrows) == logFnThrows

\* this.log: whether a call of it throws, given that logFn does
ServiceLogThrows(logFnThrows) == FALSE

\* isDebugEnabled(): this.debug or the configuration flag
IsDebugEnabled(dbg, cfgDebug) == dbg \/ cfgDebug

DirtPlay == "/dirt/play"

\* An OSC argument: a string or a small non-negative integer, bare or
\* (meta) held in the value field of a {type, value} object
StrArg(str) == [meta |-> FALSE, t |-> "string", s |-> str, n |-> 0]
NumArg(num) == [meta |-> FALSE, t |-> "number", s |-> "", n |-> num]
Meta(a) == [a EXCEPT !.meta = TRUE]

\* unwrap = (a) => (a && typeof a === 'object' && 'value' in a) ? a.value : a
Unwrap(a) == IF a.meta THEN [a EXCEPT !.meta = FALSE] ELSE a

DecimalDigits == <<"0", "1", "2", "3", "4", "5", "6", "7", "8", "9">>

\* String(x) of an unwrapped or wrapped argument
JsString(x) ==
  IF x.meta THEN "[object Object]"
  ELSE IF x.t = "string" THEN x.s
  ELSE DecimalDigits[x.n + 1]

\* Object.create(null), and out[k] = v
EmptyObject == [k \in {} |-> NumArg(0)]
Put(out, k, v) == [x \in DOMAIN out \cup {k} |-> IF x = k THEN v ELSE out[x]]

\* kvToObj that keeps the first value of a key
KvToObjFirstWins(xs) ==
  LET RECURSIVE Loop(_, _)
      Loop(i, out) ==
        IF ~(i + 1 < Len(xs)) THEN out
        ELSE LET k == JsString(Unwrap(xs[i + 1]))
                 v == Unwrap(xs[i + 2])
             IN Loop(i + 2, IF k # "" /\ k \notin DOMAIN out
                            THEN Put(out, k, v) ELSE out)
  IN Loop(0, EmptyObject)

\* kvToObj(xs): for (let i = 0; i + 1 < xs.length; i += 2) with
\* if (k) out[k] = v; i counts from 0 as in the code
KvToObj(xs) ==
  LET RECURSIVE Loop(_, _)
      Loop(i, out) ==
        IF ~(i + 1 < Len(xs)) THEN out
        ELSE LET k == JsString(Unwrap(xs[i + 1]))
                 v == Unwrap(xs[i + 2])
             IN Loop(i + 2, IF k # "" THEN Put(out, k, v) ELSE out)
  IN Loop(0, EmptyObject)

\* The work on one message inside the handler's try block: args.map,
\* the hook in its own try/catch, the log line.  thrown says whether an
\* exception leaves the block.
\* hookArgs are the arguments (evt, timeTag) of the calls of the hook.
MessageBody(hk, dbg, pkt, tt, logFnThrows) ==
  IF pkt.argsBad
  THEN [thrown |-> TRUE, hookCalls |-> 0, hookArgs |-> <<>>, logs |-> <<>>]
  ELSE
    LET hooked == pkt.addr = DirtPlay /\ hk
        hookFailed == hooked /\ pkt.hookThrows
        inCatch == hookFailed /\ ServiceLogThrows(logFnThrows)
        passed == IF hooked THEN <<[evt |-> KvToObj(pkt.args), timeTag |-> tt]>>
                  ELSE <<>>
        line == IF dbg THEN <<"debug-line">>
                ELSE IF pkt.addr # DirtPlay THEN <<"recv">> ELSE <<>>
    IN IF inCatch
       THEN [thrown |-> TRUE, hookCalls |-> 1, hookArgs |-> passed,
             logs |-> <<"Dirt parse error">>]
       ELSE [thrown |-> line # <<>> /\ ServiceLogThrows(logFnThrows),
             hookCalls |-> IF hooked THEN 1 ELSE 0,
             hookArgs |-> passed,
             logs |-> (IF hookFailed THEN <<"Dirt parse error">> ELSE <<>>) \o line]

\* udpPort.on('message', ...): escaped says whether an exception leaves
\* the handler
MessageHandler(hk, dbg, pkt, timeTag, logFnThrows) ==
  LET b == MessageBody(hk, dbg, pkt, timeTag, logFnThrows)
  IN IF b.thrown
     THEN [escaped |-> ServiceLogThrows(logFnThrows),
           hookCalls |-> b.hookCalls,
           hookArgs |-> b.hookArgs,
           counted |-> 1,
           logs |-> b.logs \o <<"OSC message error">>]
     ELSE [escaped |-> FALSE, hookCalls |-> b.hookCalls,
           hookArgs |-> b.hookArgs, counted |-> 1,
           logs |-> b.logs]

\* udpPort.on('bundle', ...): btag = timeTag || bundle.timeTag, then the
\* loop over bundle.packets with one try/catch per packet inside the
\* try/catch of the handler; a packet without a string address is passed
\* over
BundleHandler(hk, dbg, bundle, timeTag, logFnThrows) ==
  LET btag == JsOr(timeTag, bundle.timeTag)
      packets == bundle.packets
      RECURSIVE Loop(_, _)
      Loop(i, acc) ==
        IF i > Len(packets) THEN acc
        ELSE IF packets[i].addr = "none" THEN Loop(i + 1, acc)
        ELSE
          LET b == MessageBody(hk, dbg, packets[i], btag, logFnThrows)
              got == [acc EXCEPT !.hookCalls = @ + b.hookCalls,
                                 !.hookArgs = @ \o b.hookArgs,
                                 !.counted = @ + 1,
                                 !.logs = @ \o b.logs]
          IN IF ~b.thrown THEN Loop(i + 1, got)
             ELSE IF ~ServiceLogThrows(logFnThrows)
             THEN Loop(i + 1, [got EXCEPT !.logs = @ \o <<"OSC bundle message error">>])
             ELSE [got EXCEPT !.thrown = TRUE,
                              !.logs = @ \o <<"OSC bundle message error">>]
      first == IF dbg /\ ServiceLogThrows(logFnThrows)
               THEN [thrown |-> TRUE, hookCalls |-> 0, hookArgs |-> <<>>,
                     counted |-> 0, logs |-> <<"bundle-line">>]
               ELSE Loop(1, [thrown |-> FALSE, hookCalls |-> 0, hookArgs |-> <<>>,
                             counted |-> 0,
                             logs |-> IF dbg THEN <<"bundle-line">> ELSE <<>>])
  IN IF first.thrown
     THEN [escaped |-> ServiceLogThrows(logFnThrows),
           hookCalls |-> first.hookCalls, hookArgs |-> first.hookArgs,
           counted |-> first.counted,
           logs |-> first.logs \o <<"OSC bundle error">>]
     ELSE [escaped |-> FALSE, hookCalls |-> first.hookCalls,
           hookArgs |-> first.hookArgs,
           counted |-> first.counted, logs |-> first.logs]

HeaderErrWindowMs == 2000

\* the test of the rate limit with the window check dropped
HeaderWarnDueAlways(last, now) == TRUE

\* !this._lastHeaderErrAt || now - this._lastHeaderErrAt > 2000
HeaderWarnDue(last, now) == last = 0 \/ now - last > HeaderErrWindowMs

\* udpPort.on('error', ...); header says whether the message matches
\* /header of an OSC packet|must begin with/i
ErrorHandler(last, now, header, dbg, logFnThrows) ==
  IF header
  THEN IF HeaderWarnDue(last, now)
       THEN [lastHeaderErrAt |-> now, logs |-> <<LogHeaderWarning(dbg)>>,
             escaped |-> ServiceLogThrows(logFnThrows)]
       ELSE [lastHeaderErrAt |-> last, logs |-> <<>>, escaped |-> FALSE]
  ELSE [lastHeaderErrAt |-> last, logs |-> <<LogOscError>>,
        escaped |-> ServiceLogThrows(logFnThrows)]

\* ------------------------------------------------------------------------
\* Specification of OscService
\* ------------------------------------------------------------------------
NoEv ==
  [kind |-> "none", socket |-> 0, outcome |-> "", packets |-> <<>>,
   hookCalls |-> 0, escaped |-> FALSE, logs |-> <<>>,
   heldAtEntry |-> 0, stoppedAtEntry |-> FALSE, header |-> FALSE,
   logFnThrows |-> FALSE, opts |-> NoOpts]

\* A received packet: its address ("none" for a packet without a string
\* address, such as a bundle inside a bundle), its args, whether its args
\* are no array, whether the hook throws on it, the timeTag field it
\* carries and, for a bundle, its packets
Packet(addr, args, timeTag, packets) ==
  [addr |-> addr, args |-> args, argsBad |-> FALSE, hookThrows |-> FALSE,
   timeTag |-> timeTag, packets |-> packets]

\* packets without arguments or timetags
PacketKinds ==
  {Packet(DirtPlay, <<>>, Undefined, <<>>),
   [Packet(DirtPlay, <<>>, Undefined, <<>>) EXCEPT !.hookThrows = TRUE],
   [Packet(DirtPlay, <<>>, Undefined, <<>>) EXCEPT !.argsBad = TRUE],
   Packet("/other", <<>>, Undefined, <<>>),
   Packet("none", <<>>, Undefined, <<>>)}

Bundles == UNION {[1..n -> PacketKinds] : n \in 0..MaxPackets}

TickSteps == {HeaderErrWindowMs \div 2, HeaderErrWindowMs \div 2 + 1}
Ticks == (clock - EpochMs) \div (HeaderErrWindowMs \div 2)

\* a UDPPort emits to the handlers registered on it
Emits(s) == sockets[s].listeners /\ sockets[s].state = "open"

OscInit ==
  /\ udpPort = 0
  /\ sockets = [s \in SocketIds |-> NoSocket]
  /\ host = DefaultHost
  /\ port = DefaultPort
  /\ debug \in BOOLEAN
  /\ hooks \in BOOLEAN
  /\ count = 0
  /\ lastHeaderErrAt = 0
  /\ clock = EpochMs
  /\ oscPc = "idle"
  /\ stopped = FALSE
  /\ warnTimes = <<>>
  /\ oscEv = NoEv

OscStart ==
  /\ oscPc = "idle"
  /\ \E outcome \in StartOutcomes :
       /\ udpPort # 0 \/ outcome = "ctorThrows"
            \/ Cardinality(Created(sockets)) < MaxSockets
       /\ \E r \in {StartOn(udpPort, sockets, host, port, outcome)} :
            /\ udpPort' = r.udpPort
            /\ sockets' = r.sockets
            /\ oscEv' = [NoEv EXCEPT !.kind = "start",
                                     !.outcome = IF udpPort # 0 THEN "held" ELSE outcome,
                                     !.socket = r.created,
                                     !.logs = r.logs,
                                     !.heldAtEntry = udpPort,
                                     !.stoppedAtEntry = stopped]
  /\ stopped' = FALSE
  /\ oscPc' = "returned"
  /\ UNCHANGED <<debug, hooks, count, lastHeaderErrAt, clock, warnTimes>>
  /\ UNCHANGED tempoVars
  /\ UNCHANGED tagVars
  /\ UNCHANGED extVars

OscStop ==
  /\ oscPc = "idle"
  /\ \E r \in {StopOn(udpPort, sockets)} :
       /\ udpPort' = r.udpPort
       /\ sockets' = r.sockets
  /\ oscEv' = [NoEv EXCEPT !.kind = "stop", !.socket = udpPort,
                           !.heldAtEntry = udpPort,
                           !.stoppedAtEntry = stopped]
  /\ stopped' = TRUE
  /\ oscPc' = "returned"
  /\ UNCHANGED <<debug, hooks, count, lastHeaderErrAt, clock, warnTimes>>
  /\ UNCHANGED tempoVars
  /\ UNCHANGED tagVars
  /\ UNCHANGED extVars

\* restart(opts) with opts that at most set debug
OscRestart ==
  /\ oscPc = "idle"
  /\ \E outcome \in StartOutcomes, opts \in DebugOpts :
       /\ outcome = "ctorThrows" \/ Cardinality(Created(sockets)) < MaxSockets
       /\ \E r \in {RestartOn(udpPort, sockets, host, port, debug, opts, outcome)} :
            /\ udpPort' = r.udpPort
            /\ sockets' = r.sockets
            /\ debug' = r.debug
            /\ oscEv' = [NoEv EXCEPT !.kind = "restart",
                                     !.outcome = outcome,
                                     !.socket = r.created,
                                     !.logs = r.logs,
                                     !.heldAtEntry = udpPort,
                                     !.stoppedAtEntry = stopped]
  /\ stopped' = FALSE
  /\ oscPc' = "returned"
  /\ UNCHANGED <<hooks, count, lastHeaderErrAt, clock, warnTimes>>
  /\ UNCHANGED tempoVars
  /\ UNCHANGED tagVars
  /\ UNCHANGED extVars

\* restart(opts) with any opts
OscRestartAny ==
  /\ oscPc = "idle"
  /\ \E outcome \in StartOutcomes, opts \in RestartOpts :
       /\ outcome = "ctorThrows" \/ Cardinality(Created(sockets)) < MaxSockets
       /\ \E r \in {RestartOn(udpPort, sockets, host, port, debug, opts, outcome)} :
            /\ udpPort' = r.udpPort
            /\ sockets' = r.sockets
            /\ host' = r.host
            /\ port' = r.port
            /\ debug' = r.debug
            /\ oscEv' = [NoEv EXCEPT !.kind = "restart",
                                     !.outcome = outcome,
                                     !.socket = r.created,
                                     !.logs = r.logs,
                                     !.heldAtEntry = udpPort,
                                     !.stoppedAtEntry = stopped,
                                     !.opts = opts]
  /\ stopped' = FALSE
  /\ oscPc' = "returned"
  /\ UNCHANGED <<hooks, count, lastHeaderErrAt, clock, warnTimes>>
  /\ UNCHANGED tempoVars
  /\ UNCHANGED tagVars
  /\ UNCHANGED restOfLife

\* The UDPPort s emits 'message'
MessageEvent ==
  /\ oscPc = "idle"
  /\ count < MaxCount
  /\ \E s \in SocketIds, pkt \in PacketKinds, logFnThrows \in BOOLEAN,
        cfgDebug \in BOOLEAN :
       /\ Emits(s)
       /\ \E r \in {MessageHandler(hooks, IsDebugEnabled(debug, cfgDebug),
                                   pkt, Undefined, logFnThrows)} :
            /\ count' = count + r.counted
            /\ oscEv' = [NoEv EXCEPT !.kind = "message", !.socket = s,
                                     !.packets = <<pkt>>,
                                     !.hookCalls = r.hookCalls,
                                     !.escaped = r.escaped,
                                     !.logFnThrows = logFnThrows,
                                     !.logs = r.logs,
                                     !.heldAtEntry = udpPort,
                                     !.stoppedAtEntry = stopped]
  /\ oscPc' = "returned"
  /\ UNCHANGED <<udpPort, sockets, debug, hooks, lastHeaderErrAt, clock,
                 stopped, warnTimes>>
  /\ UNCHANGED tempoVars
  /\ UNCHANGED tagVars
  /\ UNCHANGED extVars

\* The UDPPort s emits 'bundle'
BundleEvent ==
  /\ oscPc = "idle"
  /\ \E s \in SocketIds, packets \in Bundles, logFnThrows \in BOOLEAN,
        cfgDebug \in BOOLEAN :
       /\ Emits(s)
       /\ count + Len(packets) <= MaxCount
       /\ \E r \in {BundleHandler(hooks, IsDebugEnabled(debug, cfgDebug),
                                  [timeTag |-> Undefined, packets |-> packets],
                                  Undefined, logFnThrows)} :
            /\ count' = count + r.counted
            /\ oscEv' = [NoEv EXCEPT !.kind = "bundle", !.socket = s,
                                     !.packets = packets,
                                     !.hookCalls = r.hookCalls,
                                     !.escaped = r.escaped,
                                     !.logFnThrows = logFnThrows,
                                     !.logs = r.logs,
                                     !.heldAtEntry = udpPort,
                                     !.stoppedAtEntry = stopped]
  /\ oscPc' = "returned"
  /\ UNCHANGED <<udpPort, sockets, debug, hooks, lastHeaderErrAt, clock,
                 stopped, warnTimes>>
  /\ UNCHANGED tempoVars
  /\ UNCHANGED tagVars
  /\ UNCHANGED extVars

\* The UDPPort s emits 'error': a datagram that fails the OSC header
\* validation on a bound socket, or another error of the socket
ErrorEvent ==
  /\ oscPc = "idle"
  /\ \E s \in SocketIds, header \in BOOLEAN, logFnThrows \in BOOLEAN,
        cfgDebug \in BOOLEAN :
       /\ sockets[s].listeners
       /\ IF header THEN sockets[s].state = "open"
                    ELSE sockets[s].state \in {"open", "failed"}
       /\ \E r \in {ErrorHandler(lastHeaderErrAt, clock, header,
                                 IsDebugEnabled(debug, cfgDebug), logFnThrows)} :
            /\ lastHeaderErrAt' = r.lastHeaderErrAt
            /\ warnTimes' = IF header /\ r.logs # <<>>
                            THEN Append(warnTimes, clock) ELSE warnTimes
            /\ oscEv' = [NoEv EXCEPT !.kind = "error", !.socket = s,
                                     !.header = header,
                                     !.escaped = r.escaped,
                                     !.logFnThrows = logFnThrows,
                                     !.logs = r.logs,
                                     !.heldAtEntry = udpPort,
                                     !.stoppedAtEntry = stopped]
  /\ oscPc' = "returned"
  /\ UNCHANGED <<udpPort, sockets, debug, hooks, count, clock, stopped>>
  /\ UNCHANGED tempoVars
  /\ UNCHANGED tagVars
  /\ UNCHANGED extVars

\* Time passes
Tick ==
  /\ oscPc = "idle"
  /\ Ticks < MaxTicks
  /\ \E d \in TickSteps : clock' = clock + d
  /\ UNCHANGED <<udpPort, sockets, debug, hooks, count, lastHeaderErrAt,
                 oscPc, stopped, warnTimes, oscEv>>
  /\ UNCHANGED tempoVars
  /\ UNCHANGED tagVars
  /\ UNCHANGED extVars

\* The call or handler has returned; its record is dropped
OscReturn ==
  /\ oscPc = "returned"
  /\ oscPc' = "idle"
  /\ oscEv' = NoEv
  /\ UNCHANGED <<udpPort, sockets, debug, hooks, count, lastHeaderErrAt,
                 clock, stopped, warnTimes>>
  /\ UNCHANGED tempoVars
  /\ UNCHANGED tagVars
  /\ UNCHANGED extVars

\* ------------------------------------------------------------------------
\* Specification of timeTagToPosixSeconds
\* ------------------------------------------------------------------------
NotDecoded == [t |-> "none", v |-> 0]

\* 32-bit words <<hi, lo>> around the places where a float64 rounds
SecWords ==
  {<<0, 0>>, <<0, 1>>, <<31, Limb - 1>>, <<32, 0>>, <<Limb \div 2 - 1, Limb - 1>>,
   <<Limb \div 2, 0>>, <<60577, 25728>>, <<Limb - 1, Limb - 1>>}
    \cup {<<NtpEpochOffset[1], NtpEpochOffset[2] + t>> : t \in 0..MaxTime}
FracWords ==
  {<<0, 0>>, <<0, 1>>, <<0, 1023>>, <<0, 1024>>, <<0, 1025>>, <<0, 2048>>,
   <<0, 3072>>, <<Limb \div 2, 0>>, <<Limb - 1, Limb - 1024>>,
   <<Limb - 1, Limb - 1>>}

TimeTags ==
  {RawTag(Int32(FALSE, s[1], s[2]), Int32(FALSE, f[1], f[2])) :
     s \in SecWords, f \in FracWords}
    \cup {FieldsTag(Int32(FALSE, s[1], s[2]), Int32(FALSE, f[1], f[2])) :
            s \in SecWords, f \in FracWords}
    \cup {RawTag(Int32(TRUE, 0, 1), NotNum), FieldsTag(Int32(TRUE, 0, 1), NotNum),
          FieldsTag(Int32(TRUE, 1, 0), Int32(TRUE, Limb - 1, Limb - 1)),
          OtherObject, ThrowingObject}
    \cup {Num(t) : t \in Seconds} \cup {Num(0), Num(-One), Num(Half)}
    \cup {NumStr(0), NumStr(3 * Half), Str, NaN, Infinity, JsTrue, Undefined, Null}

TagInit ==
  /\ tag \in TimeTags
  /\ decoded = NotDecoded

\* One call of timeTagToPosixSeconds(tag), run to its return
DecodeTag ==
  /\ decoded = NotDecoded
  /\ decoded' = TimeTagToPosixSeconds(tag)
  /\ UNCHANGED tag
  /\ UNCHANGED tempoVars
  /\ UNCHANGED oscVars
  /\ UNCHANGED extVars

\* ------------------------------------------------------------------------
\* Specification of the listeners' calls of hooks.onDirtPlay
\* ------------------------------------------------------------------------
NoDelivery ==
  [kind |-> "none", packet |-> Packet("none", <<>>, Undefined, <<>>),
   timeTag |-> Undefined, hk |-> FALSE]
NotDispatched == [ran |-> FALSE, hookArgs |-> <<>>]

\* timetags as osc.js hands them over
TagOf(k) == RawTag(Int32(FALSE, 0, k), Int32(FALSE, 0, 0))

ArgValues ==
  {Meta(StrArg("cps")), StrArg("s"), Meta(StrArg("")), Meta(NumArg(1)), NumArg(2)}
ArgLists == UNION {[1..n -> ArgValues] : n \in 0..MaxArgs}
CpsArgs == <<Meta(StrArg("cps")), Meta(NumArg(1))>>

\* packets of a bundle: messages with and without a timeTag field of
\* their own, and a bundle with its own timetag around one message
BundledPackets ==
  {Packet(DirtPlay, CpsArgs, Undefined, <<>>),
   Packet(DirtPlay, CpsArgs, TagOf(3), <<>>),
   Packet("/other", CpsArgs, Undefined, <<>>),
   Packet("none", <<>>, TagOf(3), <<Packet(DirtPlay, CpsArgs, Undefined, <<>>)>>)}

\* a 'message' or 'bundle' event: the packet, the timeTag argument of
\* the listener, and whether hooks.onDirtPlay is a function
Deliveries ==
  {[kind |-> "message", packet |-> Packet(DirtPlay, xs, Undefined, <<>>),
    timeTag |-> tt, hk |-> h] :
     xs \in ArgLists, tt \in {Undefined, TagOf(1)}, h \in BOOLEAN}
    \cup
  {[kind |-> "bundle", packet |-> Packet("none", <<>>, bt, ps),
    timeTag |-> tt, hk |-> h] :
     bt \in {Undefined, TagOf(2)},
     ps \in UNION {[1..n -> BundledPackets] : n \in 0..MaxPackets},
     tt \in {Undefined, TagOf(1)}, h \in BOOLEAN}

DispatchIdle ==
  /\ received = NoDelivery
  /\ dispatched = NotDispatched

DispatchInit ==
  /\ received \in Deliveries
  /\ dispatched = NotDispatched

\* The listener of the event runs to its return (debug off, a log
\* function that does not throw)
Deliver ==
  /\ ~dispatched.ran
  /\ \E r \in {IF received.kind = "message"
                THEN MessageHandler(received.hk, FALSE, received.packet,
                                    received.timeTag, FALSE)
                ELSE BundleHandler(received.hk, FALSE, received.packet,
                                   received.timeTag, FALSE)} :
       dispatched' = [ran |-> TRUE, hookArgs |-> r.hookArgs]
  /\ UNCHANGED received
  /\ UNCHANGED tempoVars
  /\ UNCHANGED oscVars
  /\ UNCHANGED tagVars
  /\ UNCHANGED restOfDispatch

\* ------------------------------------------------------------------------
\* Specification of the package: toggle, auto-start, Main.start, Main.stop
\* ------------------------------------------------------------------------
NoToggle == [ran |-> "none", wasRunning |-> FALSE]

PackageInit ==
  /\ isActive = FALSE
  /\ punctual = FALSE
  /\ startsPending = 0
  /\ stopsPending = 0
  /\ toggled = NoToggle

\* toggle(): isActive is flipped and Main.stop() or Main.start() is
\* called.  Main.stop() runs up to await this.audio.stop(), which
\* includes this.punctual = null; Main.start() runs up to its first await.
Toggle ==
  /\ IF isActive
     THEN /\ stopsPending < MaxPending
          /\ isActive' = FALSE
          /\ punctual' = FALSE
          /\ stopsPending' = stopsPending + 1
          /\ toggled' = [ran |-> "stop", wasRunning |-> punctual]
          /\ UNCHANGED startsPending
     ELSE /\ startsPending < MaxPending
          /\ isActive' = TRUE
          /\ startsPending' = startsPending + 1
          /\ toggled' = [ran |-> "start", wasRunning |-> punctual]
          /\ UNCHANGED <<punctual, stopsPending>>
  /\ UNCHANGED tempoVars
  /\ UNCHANGED oscVars
  /\ UNCHANGED tagVars
  /\ UNCHANGED restOfPackage

\* ensureStartedForEditor(editor) of an eval command on a Punctual file:
\* Main.start() is called unless this.punctual is set
AutoStart ==
  /\ ~punctual
  /\ startsPending < MaxPending
  /\ startsPending' = startsPending + 1
  /\ toggled' = NoToggle
  /\ UNCHANGED <<isActive, punctual, stopsPending>>
  /\ UNCHANGED tempoVars
  /\ UNCHANGED oscVars
  /\ UNCHANGED tagVars
  /\ UNCHANGED restOfPackage

\* A pending Main.start() runs from its awaits to its end: the engine is
\* created and mod.isActive = true, or (loaded = FALSE) the loader script
\* or the audio service failed and the catch block only logs
StartCompletes ==
  /\ startsPending > 0
  /\ startsPending' = startsPending - 1
  /\ \E loaded \in BOOLEAN :
       IF loaded
       THEN punctual' = TRUE /\ isActive' = TRUE
       ELSE UNCHANGED <<punctual, isActive>>
  /\ toggled' = NoToggle
  /\ UNCHANGED stopsPending
  /\ UNCHANGED tempoVars
  /\ UNCHANGED oscVars
  /\ UNCHANGED tagVars
  /\ UNCHANGED restOfPackage

\* A pending Main.stop() runs from await this.audio.stop() to its end:
\* mod.isActive = false
StopCompletes ==
  /\ stopsPending > 0
  /\ stopsPending' = stopsPending - 1
  /\ isActive' = FALSE
  /\ toggled' = NoToggle
  /\ UNCHANGED <<punctual, startsPending>>
  /\ UNCHANGED tempoVars
  /\ UNCHANGED oscVars
  /\ UNCHANGED tagVars
  /\ UNCHANGED restOfPackage

\* ------------------------------------------------------------------------
\* Specification of AudioService: the master volume and panic
\* ------------------------------------------------------------------------
PanicRestoreMs == 3000
DefaultVolume == 70
VolumeStep == 5
AudioTickMs == PanicRestoreMs \div 3

\* arguments of setMasterVolume, in percent
VolumeInputs == {-5, 0, 50, 105}
\* values of the configuration key masterVolume before the service starts
StoredVolumes == {Undefined, Num(0), Num(50)}

\* Math.min(100, volume): no floor at 0
ClampNoFloor(volume) == IF volume < 100 THEN volume ELSE 100

\* Math.max(0, Math.min(100, volume))
Clamp(volume) ==
  LET capped == IF volume < 100 THEN volume ELSE 100
  IN IF capped > 0 THEN capped ELSE 0

\* atom.config.get('pulsar-punctual.masterVolume') || 70
VolumeOrDefault(stored) == JsOr(stored, Num(DefaultVolume)).v

\* no volume call has just run
NoVolEv == [op |-> "none", ret |-> 0]

AudioIdle ==
  /\ masterGainNode = FALSE
  /\ gainValue = 0
  /\ masterVolume = Undefined
  /\ timers = <<>>
  /\ audioClock = 0
  /\ evalsPending = <<>>
  /\ level = 0
  /\ volEv = NoVolEv

AudioInit ==
  /\ masterGainNode = FALSE
  /\ gainValue = 0
  /\ masterVolume \in StoredVolumes
  /\ timers = <<>>
  /\ audioClock = 0
  /\ evalsPending = <<>>
  /\ level = 0
  /\ volEv = NoVolEv

\* start(): the gain node is created with the stored volume
AudioStart ==
  /\ ~masterGainNode
  /\ masterGainNode' = TRUE
  /\ gainValue' = VolumeOrDefault(masterVolume)
  /\ level' = VolumeOrDefault(masterVolume)
  /\ UNCHANGED <<masterVolume, timers, audioClock, evalsPending>>
  /\ volEv' = NoVolEv
  /\ UNCHANGED tempoVars
  /\ UNCHANGED oscVars
  /\ UNCHANGED tagVars
  /\ UNCHANGED restOfAudio

\* stop(): the gain node is disconnected and dropped
AudioStop ==
  /\ masterGainNode
  /\ masterGainNode' = FALSE
  /\ gainValue' = 0
  /\ level' = 0
  /\ UNCHANGED <<masterVolume, timers, audioClock, evalsPending>>
  /\ volEv' = NoVolEv
  /\ UNCHANGED tempoVars
  /\ UNCHANGED oscVars
  /\ UNCHANGED tagVars
  /\ UNCHANGED restOfAudio

\* setMasterVolume(volume) on a started service
SetMasterVolume ==
  /\ masterGainNode
  /\ \E volume \in VolumeInputs :
       /\ gainValue' = Clamp(volume)
       /\ masterVolume' = Num(Clamp(volume))
       /\ level' = Clamp(volume)
  /\ UNCHANGED <<masterGainNode, timers, audioClock, evalsPending>>
  /\ volEv' = [NoVolEv EXCEPT !.op = "set"]
  /\ UNCHANGED tempoVars
  /\ UNCHANGED oscVars
  /\ UNCHANGED tagVars
  /\ UNCHANGED restOfAudio

\* currentVolume !== null && currentVolume !== undefined ? currentVolume : 70
StoredOrDefault(stored) ==
  IF stored.t \notin {"null", "undefined"} THEN stored.v ELSE DefaultVolume

\* increaseMasterVolume() on a started service:
\* setMasterVolume(volume + 5)
IncreaseMasterVolume ==
  /\ masterGainNode
  /\ \E volume \in {StoredOrDefault(masterVolume) + VolumeStep} :
       /\ gainValue' = Clamp(volume)
       /\ masterVolume' = Num(Clamp(volume))
       /\ level' = Clamp(volume)
  /\ volEv' = [NoVolEv EXCEPT !.op = "increase"]
  /\ UNCHANGED <<masterGainNode, timers, audioClock, evalsPending>>
  /\ UNCHANGED tempoVars
  /\ UNCHANGED oscVars
  /\ UNCHANGED tagVars
  /\ UNCHANGED restOfAudio

\* decreaseMasterVolume() on a started service:
\* setMasterVolume(volume - 5)
DecreaseMasterVolume ==
  /\ masterGainNode
  /\ \E volume \in {StoredOrDefault(masterVolume) - VolumeStep} :
       /\ gainValue' = Clamp(volume)
       /\ masterVolume' = Num(Clamp(volume))
       /\ level' = Clamp(volume)
  /\ volEv' = [NoVolEv EXCEPT !.op = "decrease"]
  /\ UNCHANGED <<masterGainNode, timers, audioClock, evalsPending>>
  /\ UNCHANGED tempoVars
  /\ UNCHANGED oscVars
  /\ UNCHANGED tagVars
  /\ UNCHANGED restOfAudio

\* getMasterVolume(): atom.config.get('pulsar-punctual.masterVolume') || 70
GetMasterVolume ==
  /\ volEv' = [op |-> "get", ret |-> VolumeOrDefault(masterVolume)]
  /\ UNCHANGED <<masterGainNode, gainValue, masterVolume, timers, audioClock,
                 evalsPending, level>>
  /\ UNCHANGED tempoVars
  /\ UNCHANGED oscVars
  /\ UNCHANGED tagVars
  /\ UNCHANGED restOfAudio

\* the timer of a panic: when it is due, when panic() was called and the
\* level in effect then (history)
PanicTimer(now, at, before) == [due |-> now + PanicRestoreMs, at |-> at, before |-> before]

\* panic(evaluateFn) up to its first await, or to its end when evaluateFn
\* is no function and setTimeout is reached at once
Panic ==
  /\ Len(timers) + Len(evalsPending) < MaxPanics
  /\ gainValue' = IF masterGainNode THEN 0 ELSE gainValue
  /\ \E hasEvaluateFn \in BOOLEAN :
       IF hasEvaluateFn
       THEN /\ evalsPending' = Append(evalsPending, [at |-> audioClock, before |-> level])
            /\ UNCHANGED timers
       ELSE /\ timers' = Append(timers, PanicTimer(audioClock, audioClock, level))
            /\ UNCHANGED evalsPending
  /\ UNCHANGED <<masterGainNode, masterVolume, audioClock, level>>
  /\ volEv' = NoVolEv
  /\ UNCHANGED tempoVars
  /\ UNCHANGED oscVars
  /\ UNCHANGED tagVars
  /\ UNCHANGED restOfAudio

\* evaluateFn('0 >> audio;') settles (its rejection is swallowed) and
\* panic() goes on to setTimeout
EvalSettles ==
  /\ evalsPending # <<>>
  /\ evalsPending' = Tail(evalsPending)
  /\ timers' = Append(timers, PanicTimer(audioClock, Head(evalsPending).at,
                                         Head(evalsPending).before))
  /\ UNCHANGED <<masterGainNode, gainValue, masterVolume, audioClock, level>>
  /\ volEv' = NoVolEv
  /\ UNCHANGED tempoVars
  /\ UNCHANGED oscVars
  /\ UNCHANGED tagVars
  /\ UNCHANGED restOfAudio

\* The callback of setTimeout(..., 3000) runs
TimerFires ==
  /\ timers # <<>>
  /\ Head(timers).due <= audioClock
  /\ timers' = Tail(timers)
  /\ gainValue' = IF masterGainNode THEN VolumeOrDefault(masterVolume)
                  ELSE gainValue
  /\ UNCHANGED <<masterGainNode, masterVolume, audioClock, evalsPending, level>>
  /\ volEv' = NoVolEv
  /\ UNCHANGED tempoVars
  /\ UNCHANGED oscVars
  /\ UNCHANGED tagVars
  /\ UNCHANGED restOfAudio

\* Time passes, up to the moment the next timer is due
AudioTick ==
  /\ audioClock < MaxAudioTicks * AudioTickMs
  /\ IF timers = <<>> THEN TRUE
     ELSE audioClock + AudioTickMs <= Head(timers).due
  /\ audioClock' = audioClock + AudioTickMs
  /\ UNCHANGED <<masterGainNode, gainValue, masterVolume, timers, evalsPending,
                 level>>
  /\ volEv' = NoVolEv
  /\ UNCHANGED tempoVars
  /\ UNCHANGED oscVars
  /\ UNCHANGED tagVars
  /\ UNCHANGED restOfAudio

\* ------------------------------------------------------------------------
\* Specifications
\* ------------------------------------------------------------------------
\* ------------------------------------------------------------------------
\* Specification of ConsoleView: the message list
\* ------------------------------------------------------------------------
MAX_LINES == 2000
TRIM_TO == 1500

ConsoleInit ==
  /\ list = <<>>
  /\ added = 0
  /\ dropped = 0

\* the trim that keeps the oldest items
TrimNewest(items) ==
  IF Len(items) > MAX_LINES THEN SubSeq(items, 1, TRIM_TO) ELSE items

\* the trim of addMessage: while more than MAX_LINES children, the first
\* child is removed childElementCount - TRIM_TO times
Trim(items) ==
  IF Len(items) > MAX_LINES
  THEN SubSeq(items, Len(items) - TRIM_TO + 1, Len(items))
  ELSE items

\* addMessage(message, className): the item is rendered and appended, and
\* the list is trimmed; an exception of the rendering (classList.add of a
\* className with a space) is caught before anything is appended
AddMessage ==
  /\ \E renders \in BOOLEAN :
       IF renders
       THEN /\ added < MaxAdds
            /\ added' = added + 1
            /\ list' = Trim(Append(list, added + 1))
            /\ UNCHANGED dropped
       ELSE /\ dropped < MaxDropped
            /\ dropped' = dropped + 1
            /\ UNCHANGED <<list, added>>
  /\ UNCHANGED tempoVars
  /\ UNCHANGED oscVars
  /\ UNCHANGED tagVars
  /\ UNCHANGED restOfConsole

\* ------------------------------------------------------------------------
\* Specification of Main.getCurrentParagraphIncludingComments
\* ------------------------------------------------------------------------
\* line texts: empty, white space only, code, a comment
LineTexts == {"", "  ", "osc 1", "-- a"}
\* the characters, as far as the test looks at them
WhiteSpace == {" "}

Buffers == UNION {[1..n -> LineTexts] : n \in 1..MaxRows}

NoRange == [called |-> FALSE, start |-> [row |-> 0, column |-> 0],
            end |-> [row |-> 0, column |-> 0]]

\* editor.lineTextForBufferRow(row): undefined outside the buffer
LineTextForBufferRow(lines, row) ==
  IF row \in 0..(Len(lines) - 1) THEN [t |-> "string", s |-> lines[row + 1]]
  ELSE Undefined

\* the string has a character that is not white space
HasNonSpace(str) ==
  LET chars == CASE str = "" -> {}
                 [] str = "  " -> {" "}
                 [] str = "osc 1" -> {"o", "s", "c", " ", "1"}
                 [] str = "-- a" -> {"-", " ", "a"}
                 [] str = "undefined" -> {"u", "n", "d", "e", "f", "i"}
  IN chars \ WhiteSpace # {}

\* /\S/.test(text): the argument is converted to a string first
TestNonSpace(text) ==
  HasNonSpace(IF text.t = "undefined" THEN "undefined" ELSE text.s)

\* while (/\S/.test(editor.lineTextForBufferRow(startRow)) && startRow >= 0) startRow--
RECURSIVE StartRowLoop(_, _)
StartRowLoop(lines, startRow) ==
  IF TestNonSpace(LineTextForBufferRow(lines, startRow)) /\ startRow >= 0
  THEN StartRowLoop(lines, startRow - 1)
  ELSE startRow

\* while (/\S/.test(editor.lineTextForBufferRow(endRow)) && endRow < lineCount) endRow++
RECURSIVE EndRowLoop(_, _)
EndRowLoop(lines, endRow) ==
  IF TestNonSpace(LineTextForBufferRow(lines, endRow)) /\ endRow < Len(lines)
  THEN EndRowLoop(lines, endRow + 1)
  ELSE endRow

CurrentParagraph(lines, row) ==
  [called |-> TRUE,
   start |-> [row |-> StartRowLoop(lines, row) + 1, column |-> 0],
   end |-> [row |-> EndRowLoop(lines, row), column |-> 0]]

ParaInit ==
  /\ buffer = <<"">>
  /\ cursorRow = 0
  /\ range = NoRange

\* evalBlock asks for the paragraph of the active editor
GetCurrentParagraphIncludingComments ==
  /\ range' = CurrentParagraph(buffer, cursorRow)
  /\ UNCHANGED <<buffer, cursorRow>>
  /\ UNCHANGED tempoVars
  /\ UNCHANGED oscVars
  /\ UNCHANGED tagVars
  /\ UNCHANGED restOfPara

\* the user moves the cursor to another row of the buffer
MoveCursor ==
  /\ \E row \in 0..(Len(buffer) - 1) :
       /\ row # cursorRow
       /\ cursorRow' = row
  /\ range' = NoRange
  /\ UNCHANGED buffer
  /\ UNCHANGED tempoVars
  /\ UNCHANGED oscVars
  /\ UNCHANGED tagVars
  /\ UNCHANGED restOfPara

\* ------------------------------------------------------------------------
\* Specification of a session: Main.start and Main.stop step by step
\* ------------------------------------------------------------------------
\* A call runs without interruption from one await to the next; awaits
\* with no assignment between them are one step.  A promise that is
\* already settled when it is awaited resumes the call before any other
\* command, timer or event runs.
StartIds == 1..MaxStarts
StopIds == 1..MaxStops

NoStart == [pc |-> "none", at |-> 0, duringStop |-> {},
            canvas |-> "none", loop |-> "none", osc |-> "none",
            built |-> FALSE, ctx |-> 0]
NoStop == [pc |-> "none", at |-> 0, closing |-> 0]

Least(S) == CHOOSE x \in S : \A y \in S : x <= y

FreeStarts == {i \in StartIds : starts[i].pc = "none"}
FreeStops == {j \in StopIds : stops[j].pc = "none"}
\* the calls of stop() waiting at await this.audioContext.close()
AwaitingStops == {j \in StopIds : stops[j].pc = "closing"}

SessionInit ==
  /\ starts = [i \in StartIds |-> NoStart]
  /\ stops = [j \in StopIds |-> NoStop]
  /\ contexts = [c \in StartIds |-> "none"]
  /\ audioContext = 0
  /\ canvas = 0
  /\ animationLoop = 0
  /\ oscService = 0
  /\ engine = 0
  /\ invoked = 0

\* this.oscService.stop() and this.animationLoop.stop() of Main.stop()
StopLoopAndOsc(ss) ==
  [i \in StartIds |->
     [ss[i] EXCEPT !.osc = IF i = oscService THEN "stopped" ELSE @,
                   !.loop = IF i = animationLoop THEN "stopped" ELSE @]]

\* if (this.canvas && this.canvas.parentNode)
\*   this.canvas.parentNode.removeChild(this.canvas)
RemoveCanvas(ss, c) ==
  [i \in StartIds |->
     [ss[i] EXCEPT !.canvas = IF i = c /\ @ = "attached" THEN "removed" ELSE @]]

\* Main.start() is called: it runs up to await atom.workspace.open(...)
CallStart ==
  /\ FreeStarts # {}
  /\ starts' = [starts EXCEPT ![Least(FreeStarts)] =
                  [NoStart EXCEPT !.pc = "open", !.at = invoked + 1,
                                  !.duringStop = AwaitingStops]]
  /\ invoked' = invoked + 1
  /\ startsPending' = startsPending + 1
  /\ UNCHANGED <<stops, contexts, audioContext, canvas, animationLoop,
                 oscService, engine>>
  /\ UNCHANGED <<punctual, stopsPending>>
  /\ UNCHANGED <<masterGainNode, gainValue, level>>

\* Main.stop() is called: the OSC service and the animation loop are
\* stopped and the engine is dropped; audio.stop() calls close() on an
\* open context and waits.  With no context, or one that is closing
\* already, nothing is waited for: AudioService.stop() and Main.stop()
\* run to their ends.
CallStop ==
  /\ FreeStops # {}
  /\ oscService' = 0
  /\ animationLoop' = 0
  /\ engine' = 0
  /\ punctual' = FALSE
  /\ invoked' = invoked + 1
  /\ UNCHANGED startsPending
  /\ IF audioContext # 0 /\ contexts[audioContext] = "open"
     THEN /\ contexts' = [contexts EXCEPT ![audioContext] = "closing"]
          /\ stops' = [stops EXCEPT ![Least(FreeStops)] =
                         [pc |-> "closing", at |-> invoked + 1,
                          closing |-> audioContext]]
          /\ starts' = StopLoopAndOsc(starts)
          /\ stopsPending' = stopsPending + 1
          /\ UNCHANGED <<audioContext, canvas>>
          /\ UNCHANGED <<masterGainNode, gainValue, level>>
     ELSE /\ stops' = [stops EXCEPT ![Least(FreeStops)] =
                         [pc |-> "done", at |-> invoked + 1, closing |-> 0]]
          /\ audioContext' = 0
          /\ masterGainNode' = FALSE
          /\ gainValue' = 0
          /\ level' = 0
          /\ starts' = RemoveCanvas(StopLoopAndOsc(starts), canvas)
          /\ canvas' = 0
          /\ UNCHANGED <<contexts, stopsPending>>

\* the toggle command: toggle() flips isActive and calls Main.stop() or
\* Main.start(); a stop() that runs to its end sets mod.isActive = false
SessionToggle ==
  /\ IF isActive
     THEN /\ isActive' = FALSE
          /\ toggled' = [ran |-> "stop", wasRunning |-> punctual]
          /\ CallStop
     ELSE /\ isActive' = TRUE
          /\ toggled' = [ran |-> "start", wasRunning |-> punctual]
          /\ CallStart
  /\ UNCHANGED tempoVars
  /\ UNCHANGED oscVars
  /\ UNCHANGED tagVars
  /\ UNCHANGED restOfSession

\* an eval command on a Punctual file: ensureStartedForEditor(editor)
\* calls Main.start() unless this.punctual is set
SessionAutoStart ==
  /\ ~punctual
  /\ CallStart
  /\ toggled' = NoToggle
  /\ UNCHANGED isActive
  /\ UNCHANGED tempoVars
  /\ UNCHANGED oscVars
  /\ UNCHANGED tagVars
  /\ UNCHANGED restOfSession

\* atom.workspace.open(...) has resolved: start() creates its canvas,
\* appends it to the body and waits for the loader script
StartOpens ==
  /\ \E i \in StartIds :
       /\ starts[i].pc = "open"
       /\ starts' = [starts EXCEPT ![i].pc = "load", ![i].canvas = "attached"]
       /\ canvas' = i
  /\ toggled' = NoToggle
  /\ UNCHANGED <<stops, contexts, audioContext, animationLoop, oscService,
                 engine, invoked>>
  /\ UNCHANGED <<isActive, punctual, startsPending, stopsPending>>
  /\ UNCHANGED <<masterGainNode, gainValue, level>>
  /\ UNCHANGED tempoVars
  /\ UNCHANGED oscVars
  /\ UNCHANGED tagVars
  /\ UNCHANGED restOfSession

\* The loader script, the timer and the two animation frames are over.
\* loaded = FALSE: the script failed and the catch block only logs.
\* Otherwise audio.start() creates a context unless the service holds
\* one, the engine is created on audio.getContext(), the animation loop
\* is started, the OSC service is created and started unless the
\* setting sonicLink.enabled is false, and mod.isActive = true.
StartBuilds ==
  /\ \E i \in StartIds, loaded \in BOOLEAN, enabled \in BOOLEAN :
       /\ starts[i].pc = "load"
       /\ IF loaded
          THEN \E c \in {IF audioContext = 0
                           THEN Least({k \in StartIds : contexts[k] = "none"})
                           ELSE audioContext} :
                 /\ contexts' = IF audioContext = 0
                                 THEN [contexts EXCEPT ![c] = "open"]
                                 ELSE contexts
                 /\ audioContext' = c
                 /\ IF audioContext = 0
                    THEN /\ masterGainNode' = TRUE
                         /\ gainValue' = VolumeOrDefault(masterVolume)
                         /\ level' = VolumeOrDefault(masterVolume)
                    ELSE UNCHANGED <<masterGainNode, gainValue, level>>
                 /\ starts' = [starts EXCEPT ![i] =
                                 [@ EXCEPT !.pc = "done", !.built = TRUE,
                                           !.ctx = c, !.loop = "running",
                                           !.osc = IF enabled THEN "started"
                                                   ELSE "none"]]
                 /\ engine' = i
                 /\ punctual' = TRUE
                 /\ animationLoop' = i
                 /\ oscService' = IF enabled THEN i ELSE oscService
                 /\ isActive' = TRUE
          ELSE /\ starts' = [starts EXCEPT ![i].pc = "done"]
               /\ UNCHANGED <<contexts, audioContext, engine, animationLoop,
                              oscService>>
               /\ UNCHANGED <<isActive, punctual>>
               /\ UNCHANGED <<masterGainNode, gainValue, level>>
  /\ startsPending' = startsPending - 1
  /\ toggled' = NoToggle
  /\ UNCHANGED <<stops, canvas, invoked, stopsPending>>
  /\ UNCHANGED tempoVars
  /\ UNCHANGED oscVars
  /\ UNCHANGED tagVars
  /\ UNCHANGED restOfSession

\* this.audioContext.close() has resolved: AudioService.stop() drops
\* the context and the gain node, then Main.stop() removes this.canvas
\* from the document, drops it and sets mod.isActive = false
StopCloses ==
  /\ \E j \in StopIds :
       /\ stops[j].pc = "closing"
       /\ contexts' = [contexts EXCEPT ![stops[j].closing] = "closed"]
       /\ stops' = [stops EXCEPT ![j].pc = "done"]
  /\ audioContext' = 0
  /\ masterGainNode' = FALSE
  /\ gainValue' = 0
  /\ level' = 0
  /\ starts' = RemoveCanvas(starts, canvas)
  /\ canvas' = 0
  /\ isActive' = FALSE
  /\ stopsPending' = stopsPending - 1
  /\ toggled' = NoToggle
  /\ UNCHANGED <<animationLoop, oscService, engine, invoked>>
  /\ UNCHANGED <<punctual, startsPending>>
  /\ UNCHANGED tempoVars
  /\ UNCHANGED oscVars
  /\ UNCHANGED tagVars
  /\ UNCHANGED restOfSession

\* the parts added last, as built
LaterIdle ==
  /\ ConsoleInit
  /\ ParaInit
  /\ SessionInit

\* the parts of the program a specification leaves as built
RestIdle ==
  /\ prior = NoPrior
  /\ built = NotBuilt
  /\ DispatchIdle
  /\ PackageInit
  /\ AudioIdle
  /\ LaterIdle

\* TempoSync driven by /dirt/play events; the transport stays as built
Init ==
  /\ TempoInit
  /\ OscInit
  /\ ~debug
  /\ hooks
  /\ tag = Undefined
  /\ decoded = NotDecoded
  /\ RestIdle
Next == OnDirtPlay \/ Return
Spec == Init /\ [][Next]_vars

\* OscService driven by its caller, the socket and the clock; the hook is
\* any function
InitOsc ==
  /\ TempoInit
  /\ config = [phaseSyncEnabled |-> TRUE, phaseTolerance |-> Undefined,
               phaseLeadCycles |-> Undefined]
  /\ OscInit
  /\ tag = Undefined
  /\ decoded = NotDecoded
  /\ RestIdle
NextOsc ==
  \/ OscStart
  \/ OscStop
  \/ OscRestart
  \/ MessageEvent
  \/ BundleEvent
  \/ ErrorEvent
  \/ Tick
  \/ OscReturn
SpecOsc == InitOsc /\ [][NextOsc]_vars

\* OscService driven by its lifecycle calls alone
NextLife ==
  \/ OscStart
  \/ OscStop
  \/ OscRestartAny
  \/ OscReturn

\* TempoSync driven by /dirt/play events with timetags of every shape
NextClock == OnDirtPlayTagged \/ Return
SpecClock == Init /\ [][NextClock]_vars

\* TempoSync driven by events of every kind
NextGuard == OnDirtPlayGuarded \/ Return
SpecGuard == Init /\ [][NextGuard]_vars

\* TempoSync driven by samples, each seen with the outcome of the one
\* before
NextHeal == OnDirtPlaySample \/ SettingsChange \/ ReturnNoting
SpecHeal == Init /\ [][NextHeal]_vars

\* timeTagToPosixSeconds on every shape of timetag
InitTag ==
  /\ TempoInit
  /\ config = [phaseSyncEnabled |-> TRUE, phaseTolerance |-> Undefined,
               phaseLeadCycles |-> Undefined]
  /\ OscInit
  /\ ~debug
  /\ hooks
  /\ TagInit
  /\ RestIdle
NextTag == DecodeTag
SpecTag == InitTag /\ [][NextTag]_vars

\* the transport as built, with every other part idle
Built ==
  /\ TempoInit
  /\ config = [phaseSyncEnabled |-> TRUE, phaseTolerance |-> Undefined,
               phaseLeadCycles |-> Undefined]
  /\ OscInit
  /\ ~debug
  /\ hooks
  /\ tag = Undefined
  /\ decoded = NotDecoded

\* ConsoleView driven by addMessage
InitConsole ==
  /\ Built
  /\ RestIdle
NextConsole == AddMessage
SpecConsole == InitConsole /\ [][NextConsole]_vars

\* getCurrentParagraphIncludingComments on every buffer and cursor row
InitPara ==
  /\ Built
  /\ prior = NoPrior
  /\ built = NotBuilt
  /\ DispatchIdle
  /\ PackageInit
  /\ AudioIdle
  /\ ConsoleInit
  /\ buffer \in Buffers
  /\ cursorRow \in 0..(Len(buffer) - 1)
  /\ range = NoRange
  /\ SessionInit
NextPara ==
  \/ GetCurrentParagraphIncludingComments
  \/ MoveCursor
SpecPara == InitPara /\ [][NextPara]_vars

\* Main driven by the toggle command, the eval commands and the
\* completion of what start() and stop() wait for
InitSession ==
  /\ Built
  /\ RestIdle
NextSession ==
  \/ SessionToggle
  \/ SessionAutoStart
  \/ StartOpens
  \/ StartBuilds
  \/ StopCloses
SpecSession == InitSession /\ [][NextSession]_vars

\* buildForeignTempoCandidates on every input
InitCand ==
  /\ Built
  /\ RestIdle
NextCand == BuildCandidates
SpecCand == InitCand /\ [][NextCand]_vars

\* OscService from construction, with a hook and without debug
InitLife ==
  /\ Built
  /\ RestIdle
SpecLife == InitLife /\ [][NextLife]_vars

\* The listeners of 'message' and 'bundle' on every delivery
InitDispatch ==
  /\ Built
  /\ prior = NoPrior
  /\ built = NotBuilt
  /\ DispatchInit
  /\ PackageInit
  /\ AudioIdle
  /\ LaterIdle
NextDispatch == Deliver
SpecDispatch == InitDispatch /\ [][NextDispatch]_vars

\* The package driven by the toggle command, the eval commands and the
\* completion of the asynchronous start() and stop()
InitToggle ==
  /\ Built
  /\ prior = NoPrior
  /\ built = NotBuilt
  /\ DispatchIdle
  /\ PackageInit
  /\ AudioIdle
  /\ LaterIdle
NextToggle ==
  \/ Toggle
  \/ AutoStart
  \/ StartCompletes
  \/ StopCompletes
SpecToggle == InitToggle /\ [][NextToggle]_vars

\* AudioService driven by its caller, the timers and the clock
InitAudio ==
  /\ Built
  /\ prior = NoPrior
  /\ built = NotBuilt
  /\ DispatchIdle
  /\ PackageInit
  /\ AudioInit
  /\ LaterIdle

\* AudioService on a fresh configuration, driven by the volume calls
InitVolume ==
  /\ InitAudio
  /\ masterVolume = Undefined
NextVolume ==
  \/ AudioStart
  \/ AudioStop
  \/ SetMasterVolume
  \/ IncreaseMasterVolume
  \/ DecreaseMasterVolume
  \/ GetMasterVolume
SpecVolume == InitVolume /\ [][NextVolume]_vars

NextAudio ==
  \/ AudioStart
  \/ AudioStop
  \/ SetMasterVolume
  \/ Panic
  \/ EvalSettles
  \/ TimerFires
  \/ AudioTick
SpecAudio == InitAudio /\ [][NextAudio]_vars

\* ------------------------------------------------------------------------
\* Properties of timeTagToPosixSeconds
\* ------------------------------------------------------------------------
Decoded == decoded # NotDecoded

\* { raw: [s, f] } or { seconds: s, fractions: f } with integers s and f in
\* [0, 2^32)
IsNtpTag(tt) ==
  /\ tt.t = "object"
  /\ tt.shape \in {"raw", "fields"}
  /\ tt.sec.k = "int" /\ ~tt.sec.neg
  /\ tt.frac.k = "int" /\ ~tt.frac.neg

\* s + f / 2^32 - 2208988800 as a real number
ExactPosix(s, f) ==
  LET ntp == <<s.hi, s.lo, f.hi, f.lo>>
      d == WSub(ntp, NtpEpochOffset)
  IN IF d[1] >= 0 THEN Posix(FALSE, d)
     ELSE Posix(TRUE, WSub(NtpEpochOffset, ntp))

SignedLimbs(x) ==
  IF x.neg THEN <<-x.mag[1], -x.mag[2], -x.mag[3], -x.mag[4]>> ELSE x.mag

\* |a - b| <= 1e-6: at most 4294 units of 2^-32
WithinMicro(a, b) ==
  LET d == WSub(SignedLimbs(a), SignedLimbs(b))
  IN \/ d[1] = 0 /\ d[2] = 0 /\ d[3] = 0 /\ d[4] <= 4294
     \/ d[1] = -1 /\ d[2] = Limb - 1 /\ d[3] = Limb - 1 /\ Limb - d[4] <= 4294

\* C19: timeTagToPosixSeconds never throws; it returns every finite number
\* unchanged, the numeric value of every numeric string, the NTP-to-POSIX
\* conversion of a {raw: [sec, frac]} pair or a {seconds, fractions}
\* object, and no value (null) for every other input.
C19_DecodeEveryShape ==
  Decoded =>
    /\ decoded.t \in {"number", "null"}
    /\ tag.t = "number" => decoded = tag
    /\ tag.t = "numstring" => decoded = Num(tag.v)
    /\ IsNtpTag(tag) => (decoded.t = "number" /\ WithinMicro(decoded, ExactPosix(tag.sec, tag.frac)))
    /\ (tag.t \notin {"number", "numstring"}
          /\ ~(tag.t = "object" /\ tag.shape \in {"raw", "fields"}))
         => decoded = Null

\* C20 as claimed: for all integers s and f in [0, 2^32),
\* timeTagToPosixSeconds({raw: [s, f]}) and timeTagToPosixSeconds({seconds:
\* s, fractions: f}) both equal s + f / 2^32 - 2208988800.
C20_NtpExact ==
  (Decoded /\ IsNtpTag(tag)) => decoded = ExactPosix(tag.sec, tag.frac)

\* C20 as amended: for all integers s and f in [0, 2^32) both calls return
\* the same number, which is within 1e-6 of s + f / 2^32 - 2208988800.
C20_NtpWithinMicro ==
  (Decoded /\ IsNtpTag(tag))
    => /\ decoded.t = "number"
       /\ WithinMicro(decoded, ExactPosix(tag.sec, tag.frac))
       /\ decoded = TimeTagToPosixSeconds(
                       [tag EXCEPT !.shape = IF @ = "raw" THEN "fields" ELSE "raw"])

C20_Witness ==
  /\ Decoded
  /\ IsNtpTag(tag)
  /\ tag.shape = "fields"
  /\ ~decoded.neg
  /\ decoded # ExactPosix(tag.sec, tag.frac)

\* ------------------------------------------------------------------------
\* Properties of OscService
\* ------------------------------------------------------------------------
OscReturned == oscPc = "returned"
HandlerRan == OscReturned /\ oscEv.kind \in {"message", "bundle", "error"}
StartRan == OscReturned /\ oscEv.kind \in {"start", "restart"}

C7_OpenFailureStaysUnbound ==
  /\ (StartRan /\ oscEv.outcome = "openThrows") => oscEv.logs = <<LogOpenFailed>>
  /\ (StartRan /\ oscEv.outcome \in {"openThrows", "bindError"}) => udpPort = 0

\* C8: Whatever header-validation errors arrive and whenever, no two
\* header warnings are logged less than 2000 ms apart.
C8_HeaderWarningsRateLimited ==
  \A i \in 1..Len(warnTimes) : \A j \in 1..Len(warnTimes) :
    i < j => warnTimes[j] - warnTimes[i] >= HeaderErrWindowMs

C8_Witness ==
  /\ OscReturned
  /\ oscEv.kind = "error"
  /\ oscEv.header
  /\ oscEv.logs = <<>>
  /\ Len(warnTimes) >= 2
  /\ clock - lastHeaderErrAt = 0

\* the packets of the event on which the hook is to be invoked
HookDue(ev) ==
  {i \in 1..Len(ev.packets) :
     ev.packets[i].addr = DirtPlay /\ ~ev.packets[i].argsBad /\ hooks}

\* C9: No exception leaves the 'message', 'bundle' or 'error' handler,
\* also when the hook or the log function throws; a failure on one message
\* or bundle packet keeps neither the following packets from being handled
\* nor the socket from listening.
C9_HandlersContainErrors ==
  HandlerRan =>
    /\ ~oscEv.escaped
    /\ oscEv.hookCalls = Cardinality(HookDue(oscEv))
    /\ sockets[oscEv.socket].listeners
    /\ sockets[oscEv.socket].state # "closed"
    /\ udpPort = oscEv.heldAtEntry

C9_Witness ==
  /\ OscReturned
  /\ oscEv.kind = "bundle"
  /\ oscEv.logFnThrows
  /\ Len(oscEv.packets) = 2
  /\ oscEv.packets[1].hookThrows
  /\ oscEv.packets[2].addr = DirtPlay
  /\ oscEv.hookCalls = 2
  /\ Emits(oscEv.socket)

\* ------------------------------------------------------------------------
\* Properties of the guard of onDirtPlay
\* ------------------------------------------------------------------------
\* cps is missing, not a number, not finite or not > 0
CpsNotUsable(cps) ==
  \/ cps.t \in {"undefined", "null", "string", "numstring", "NaN", "infinity"}
  \/ cps.t = "number" /\ cps.v <= 0

\* C24: An event whose cps is missing, not a number, not finite or not
\* > 0, or an event arriving while no rendering engine is attached, is not
\* actionable: onDirtPlay makes no setTempo call, logs nothing and leaves
\* the retained tempo state unchanged.
C24_NotActionableIgnored ==
  [][(CallStep /\ call'.evt # Null
        /\ (CpsNotUsable(call'.evt.cps) \/ ~call'.punctual))
       => (/\ call'.setTempoCalls = <<>>
           /\ call'.logs = <<>>
           /\ ~call'.threw
           /\ tempoModel' = tempoModel
           /\ lastCpsApplied' = lastCpsApplied)]_vars

\* an event with cps = Infinity has been handed over while a model is
\* retained
C24_Witness ==
  /\ Returned
  /\ call.evt # Null
  /\ call.evt.cps = Infinity
  /\ call.punctual
  /\ call.stage = "ignored"
  /\ tempoModel # Null

\* ------------------------------------------------------------------------
\* Properties of onDirtPlay after a failed attempt
\* ------------------------------------------------------------------------
\* the call of this step follows a failed attempt and has its cps and cycle
RetryStep ==
  /\ CallStep
  /\ prior.stage = "failed"
  /\ call'.stage # "ignored"
  /\ call'.cps = prior.cps
  /\ call'.cycle = prior.cycle

\* the call of this step decides to update and tries the engine, and the
\* retained state follows the sample once the engine accepts
Retried ==
  /\ call'.shouldUpdate
  /\ call'.setTempoCalls # <<>>
  /\ call'.stage = "applied" =>
       /\ tempoModel' # Null
       /\ tempoModel'.freq = Num(call'.cps)
       /\ tempoModel'.timeSec = Num(call'.msgTimeSec)
       /\ lastCpsApplied' = Num(call'.cps)

\* the retained model has the cps of the sample, and phase sync is off or
\* the phase drift of the sample at its own time is within the tolerance
DriftGone ==
  /\ tempoModel # Null
  /\ tempoModel.freq = Num(call'.cps)
  /\ \/ ~config.phaseSyncEnabled
     \/ /\ call'.cycle # Undefined
        /\ Abs(WrapIntoHalfOpen(tempoModel.count.v
                                  + ((call'.msgTimeSec - tempoModel.timeSec.v)
                                       * tempoModel.freq.v) \div One
                                  - call'.cycle.v)) <= PhaseTolerance(config)

\* C25 as stated: after an application attempt failed, the next inbound
\* sample with the same cps and cycle again yields shouldUpdate = true
\* and triggers a new application attempt, so that once the engine
\* accepts a candidate the model is updated.
C25_RetryAfterFailure ==
  [][RetryStep => Retried]_vars

\* C25: after an application attempt failed, the next inbound sample with
\* the same cps and cycle again yields shouldUpdate = true and triggers a
\* new application attempt, so that once the engine accepts a candidate
\* the model is updated, unless the retained model already has the cps of
\* the sample and either phase sync is off or the phase drift of the
\* sample at its own time is within the tolerance: then shouldUpdate is
\* false and no attempt is made.
C25_RetryUnlessDriftGone ==
  [][RetryStep =>
       IF DriftGone
       THEN ~call'.shouldUpdate /\ call'.setTempoCalls = <<>>
       ELSE Retried]_vars

\* a sample was applied right after an attempt with its cps and cycle had
\* failed against a retained model of another cps
C25_Witness ==
  /\ Returned
  /\ prior.stage = "failed"
  /\ call.stage = "applied"
  /\ call.cps = prior.cps
  /\ call.cycle = prior.cycle
  /\ call.msgTimeSec # prior.msgTimeSec
  /\ lastApplied.cps = call.cps

\* ------------------------------------------------------------------------
\* Properties of buildForeignTempoCandidates
\* ------------------------------------------------------------------------
\* n is Math.round(x * scale): n - 1/2 <= x * scale < n + 1/2, for the
\* numerator x over One
IsRounded(n, x, scale) ==
  /\ 2 * n * One - One <= 2 * x * scale
  /\ 2 * x * scale < 2 * n * One + One

\* the last candidate is the Simple one, {freq: cps}
EndsWithSimple ==
  /\ built.candidates # <<>>
  /\ built.candidates[Len(built.candidates)]
       = [kind |-> "simple", freq |-> FreqOf(built.cps)]

\* the Simple candidate is preceded by exactly one Precise candidate with
\* the rounded frequency, the anchor time, and the rounded cycle count
\* when hasCycle, the rational zero otherwise
OnePrecise(hasCycle) ==
  /\ Len(built.candidates) = 2
  /\ LET p == built.candidates[1]
     IN /\ p.kind = "precise"
        /\ built.cps.t = "number"
        /\ IsRounded(p.freqNumerator, built.cps.v, 1000)
        /\ p.freqDenominator = 1000
        /\ p.time = built.timeSec
        /\ IF hasCycle
           THEN /\ built.cycle.t = "number"
                /\ IsRounded(p.countNumerator, built.cycle.v, 1000000)
                /\ p.countDenominator = 1000000
           ELSE /\ p.countNumerator = 0
                /\ p.countDenominator = 1

\* C28 as stated: the list ends with the Simple candidate {freq: cps}, and
\* with big-integer arithmetic it is preceded by exactly one Precise
\* candidate with frequency round(cps*1000)/1000, anchor time timeSec and
\* cycle count round(cycle*10^6)/10^6 when a cycle (a finite number) is
\* given, 0/1 when not.
C28_PreciseThenSimple ==
  built.ran =>
    /\ EndsWithSimple
    /\ built.bigInt => OnePrecise(IsFinite(built.cycle))

\* cps * 1000 is finite, and so is cycle * 10^6 for a finite cycle
Scalable ==
  /\ built.cps.t = "number"
  /\ built.cycle.t # "max"

\* C28: the list ends with the Simple candidate {freq: cps}; with
\* big-integer arithmetic, and cps*1000 and cycle*10^6 finite, it is
\* preceded by exactly one Precise candidate with frequency
\* round(cps*1000)/1000, anchor time timeSec and cycle count
\* round(cycle*10^6)/10^6 when a cycle (a finite number) is given, 0/1
\* when not.
C28_PreciseWhenScalable ==
  built.ran =>
    /\ EndsWithSimple
    /\ (built.bigInt /\ Scalable) => OnePrecise(IsFinite(built.cycle))

\* a Precise candidate was built from a cps and a cycle that both sit at
\* a tie of the rounding
C28_Witness ==
  /\ built.ran
  /\ built.bigInt
  /\ built.cps = Num(8)
  /\ built.cycle = Num(-1)
  /\ Len(built.candidates) = 2
  /\ built.candidates[1].freqNumerator = 13
  /\ built.candidates[1].countNumerator = -1562

\* ------------------------------------------------------------------------
\* Properties of toggle
\* ------------------------------------------------------------------------
\* C29: toggle() calls Main.start() exactly when Punctual is not running
\* (Main holds no engine) and Main.stop() exactly when it is running, in
\* every state reachable through toggle and the auto-start of the eval
\* commands, also while an earlier start() or stop() has not completed.
C29_ToggleFollowsRunning ==
  toggled # NoToggle =>
    /\ toggled.ran = "start" <=> ~toggled.wasRunning
    /\ toggled.ran = "stop" <=> toggled.wasRunning

\* ------------------------------------------------------------------------
\* Properties of panic
\* ------------------------------------------------------------------------
\* panic() was called
PanicStep ==
  Len(timers') + Len(evalsPending') > Len(timers) + Len(evalsPending)

\* a timer of panic() was taken off and its callback ran
RestoreStep == timers # <<>> /\ timers' = Tail(timers)

\* the panic whose timer is taken off, or none
Restored == IF timers # <<>> THEN Head(timers) ELSE PanicTimer(0, 0, 0)

\* C30: panic() sets the master gain to 0 at once, and 3 seconds later
\* its timer sets the gain back to the master volume level that was in
\* effect before the panic, for every level in 0..100.
C30_PanicRestoresLevel ==
  [][/\ (PanicStep /\ masterGainNode) => gainValue' = 0
     /\ (RestoreStep /\ masterGainNode /\ level = Restored.before)
         => /\ audioClock >= Restored.at + PanicRestoreMs
            /\ gainValue' = Restored.before]_vars

\* ------------------------------------------------------------------------
\* Properties of the retained model against what the engine was sent
\* ------------------------------------------------------------------------
\* the call of this step was applied with the Precise candidate
PreciseAccepted ==
  /\ CallStep
  /\ call'.stage = "applied"
  /\ call'.setTempoCalls[Len(call'.setTempoCalls)].kind = "precise"

\* the count of the model m is the count num/den of a candidate, up to
\* half a millionth
SameCount(m, num, den) ==
  IF den = 1
  THEN m.count.v = num * One
  ELSE den = 1000000 /\ 2 * Abs(m.count.v * 1000000 - num * One) <= One

\* the retained count after the step against the count that was sent
CountAsSent ==
  LET sent == call'.setTempoCalls[Len(call'.setTempoCalls)]
  IN SameCount(tempoModel', sent.countNumerator, sent.countDenominator)

\* C34 as stated: whenever the engine accepts the Precise candidate, the
\* cycle count of the retained model equals the count sent in that
\* candidate, up to the millionths rounding, for samples with and
\* without cycle information.
C34_StoredCountIsSentCount ==
  [][PreciseAccepted => CountAsSent]_vars

\* C34: whenever the engine accepts the Precise candidate, the cycle
\* count of the retained model equals the count sent in that candidate,
\* up to the millionths rounding, for samples with cycle information and
\* for frequency-only samples applied when no model is retained or the
\* retained count is 0.
C34_StoredCountIsSentCountOrKept ==
  [][(PreciseAccepted
        /\ (call'.hasCycle \/ tempoModel = Null \/ tempoModel.count = Num(0)))
       => CountAsSent]_vars

\* the Precise candidate of a sample with a cycle and a lead was accepted
\* at once
C34_Witness ==
  /\ Returned
  /\ call.stage = "applied"
  /\ call.hasCycle
  /\ call.leadCycles # 0
  /\ Len(call.setTempoCalls) = 1
  /\ call.setTempoCalls[1].kind = "precise"
  /\ tempoModel.count.v # 0

\* C35: the retained model is null exactly when the last applied cps is
\* null, and a retained model carries the last applied cps as its frequency.
C35_ModelWithLastCps ==
  /\ (tempoModel = Null) <=> (lastCpsApplied = Null)
  /\ tempoModel # Null => tempoModel.freq = lastCpsApplied

\* a sample was refused by the engine after an earlier one had been applied
C35_Witness ==
  /\ Returned
  /\ call.stage = "failed"
  /\ tempoModel # Null
  /\ lastCpsApplied # Num(call.cps)

\* C38: onDirtPlay never propagates an exception to its caller, for any
\* event, timetag, engine (one whose setTempo throws on every candidate
\* included) and log callback (one that throws included).
C38_NeverThrows ==
  Returned => ~call.threw

\* ------------------------------------------------------------------------
\* Properties of the paragraph around the cursor
\* ------------------------------------------------------------------------
\* the line at the row has a character that is not white space
NonBlank(row) == buffer[row + 1] \in {"osc 1", "-- a"}

\* the rows of the maximal run of non-blank lines that holds the cursor's row
RunAroundCursor ==
  {row \in 0..(Len(buffer) - 1) :
     \A k \in 0..(Len(buffer) - 1) :
       ((row <= k /\ k <= cursorRow) \/ (cursorRow <= k /\ k <= row))
         => NonBlank(k)}

\* C39: for every buffer and cursor row the range returned has
\* 0 <= start.row <= end.row <= lineCount and covers, from start.row up to
\* but not including end.row, exactly the maximal run of non-blank lines
\* around the cursor.
C39_ParagraphIsRun ==
  range.called
    => /\ 0 <= range.start.row
       /\ range.start.row <= range.end.row
       /\ range.end.row <= Len(buffer)
       /\ {row \in 0..(Len(buffer) - 1) :
             range.start.row <= row /\ row < range.end.row} = RunAroundCursor

\* ------------------------------------------------------------------------
\* Properties of a session
\* ------------------------------------------------------------------------
\* C36: after any interleaving of toggle, the eval commands and stop, at
\* most one canvas created by Main.start() is attached, at most one
\* animation loop it created is running and at most one OscService it
\* created is started: start() creates none while an earlier one is live.
C36_OneLiveSession ==
  /\ Cardinality({i \in StartIds : starts[i].canvas = "attached"}) <= 1
  /\ Cardinality({i \in StartIds : starts[i].loop = "running"}) <= 1
  /\ Cardinality({i \in StartIds : starts[i].osc = "started"}) <= 1

\* no call of start() or stop() is waiting
AllSettled ==
  /\ \A i \in StartIds : starts[i].pc \in {"none", "done"}
  /\ \A j \in StopIds : stops[j].pc \in {"none", "done"}

\* C37: when start() was called while an earlier stop() was waiting for
\* the audio context to close, no call was made after it, and both have
\* completed (the loader script having loaded), the canvas start()
\* created is attached and is Main.canvas, and the context handed to
\* the engine is the open context the audio service holds.
C37_StartDuringStopConsistent ==
  \A i \in StartIds :
    (/\ starts[i].duringStop # {}
     /\ starts[i].at = invoked
     /\ starts[i].built
     /\ AllSettled)
      => /\ canvas = i
         /\ starts[i].canvas = "attached"
         /\ starts[i].ctx # 0
         /\ starts[i].ctx = audioContext
         /\ contexts[starts[i].ctx] = "open"

\* ------------------------------------------------------------------------
\* Properties of the console
\* ------------------------------------------------------------------------
\* the items are the ones appended last, in arrival order
MostRecent(items, n) ==
  \A i \in 1..Len(items) : items[i] = n - Len(items) + i

\* C33: after every addMessage call the console holds at most 2000
\* items; an append that makes the count exceed 2000 leaves 1500, any
\* other append one more than before; and the items held are always the
\* ones added last, in arrival order.
C33_ConsoleBounded ==
  [][/\ Len(list') <= 2000
     /\ added' = added + 1 =>
          Len(list') = (IF Len(list) + 1 > 2000 THEN 1500 ELSE Len(list) + 1)
     /\ dropped' = dropped + 1 => list' = list
     /\ MostRecent(list', added')]_vars

\* the second trim has happened: 1500 items are held and the oldest is
\* the 1003rd
C33_Witness ==
  /\ Len(list) = 1500
  /\ added = 2502
  /\ list[1] = 1003

\* ------------------------------------------------------------------------
\* Properties of the master volume
\* ------------------------------------------------------------------------
\* C31: getMasterVolume returns the volume setMasterVolume stored last,
\* for every stored value in 0..100, and the default 70 only when no
\* volume has been stored.
C31_GetReturnsStored ==
  volEv.op = "get" =>
    volEv.ret = (IF masterVolume = Undefined THEN DefaultVolume
                 ELSE masterVolume.v)

\* a volume call has just run on the started service
VolumeSet == volEv.op \in {"set", "increase", "decrease"}

\* the stored volume before a step, 70 when none is stored
VolumeBefore == IF masterVolume = Undefined THEN 70 ELSE masterVolume.v

\* C32: after setMasterVolume, increaseMasterVolume or
\* decreaseMasterVolume on a started service the stored master volume
\* lies in [0, 100] and the master gain equals volume/100; each increase
\* or decrease changes the volume by exactly 5 unless it is clamped at 100
\* or 0.
C32_VolumeBoundedStepsOfFive ==
  [][/\ VolumeSet' =>
          /\ masterGainNode'
          /\ masterVolume'.t = "number"
          /\ masterVolume'.v >= 0 /\ masterVolume'.v <= 100
          /\ gainValue' = masterVolume'.v
     /\ volEv'.op = "increase" =>
          masterVolume'.v = (IF VolumeBefore + 5 > 100 THEN 100
                             ELSE VolumeBefore + 5)
     /\ volEv'.op = "decrease" =>
          masterVolume'.v = (IF VolumeBefore - 5 < 0 THEN 0
                             ELSE VolumeBefore - 5)]_vars

\* the volume set by hand to 50 was decreased to 45, and the gain followed
C32_Witness ==
  /\ volEv.op = "decrease"
  /\ masterGainNode
  /\ masterVolume = Num(45)
  /\ gainValue = 45

\* ------------------------------------------------------------------------
\* Properties of the lifecycle of OscService
\* ------------------------------------------------------------------------
\* the sockets that are bound or still have listeners
Live(socks) == {s \in SocketIds : socks[s].listeners \/ socks[s].state = "open"}

LifeStep(kind) == oscPc = "idle" /\ oscPc' = "returned" /\ oscEv'.kind = kind

\* the option fields after opts has overridden them
Overridden(opts) ==
  [host |-> IF "host" \in opts.keys THEN opts.host ELSE host,
   port |-> IF "port" \in opts.keys THEN opts.port ELSE port,
   debug |-> IF "debug" \in opts.keys THEN opts.debug ELSE debug]

\* C26: restart(opts) is equivalent to stop() followed by start() with the
\* previous options overridden by opts: whenever the new socket opens,
\* exactly one socket exists afterwards, created with the merged host and
\* port, the previous socket is closed with no listeners left on it, and
\* nothing of the service other than host, port and debug was changed by
\* the merge.
C26_RestartIsStopThenStart ==
  [][(LifeStep("restart") /\ oscEv'.outcome = "ok") =>
       LET m == Overridden(oscEv'.opts)
       IN /\ host' = m.host /\ port' = m.port /\ debug' = m.debug
          /\ udpPort' # 0
          /\ sockets[udpPort'].state = "none"
          /\ sockets'[udpPort'] = [state |-> "open", listeners |-> TRUE,
                                   host |-> m.host, port |-> m.port]
          /\ Live(sockets') = {udpPort'}
          /\ udpPort # 0 =>
               /\ sockets'[udpPort].state # "open"
               /\ ~sockets'[udpPort].listeners
          /\ UNCHANGED <<hooks, count, lastHeaderErrAt>>]_vars

\* C27: stop() on a service that holds no socket changes nothing, and
\* start() on a service that holds a socket creates no socket, registers
\* no listener and keeps the socket it holds.
C27_LifecycleIdempotent ==
  [][/\ (LifeStep("stop") /\ udpPort = 0) =>
          UNCHANGED <<udpPort, sockets, host, port, debug, hooks, count,
                      lastHeaderErrAt>>
     /\ (LifeStep("start") /\ udpPort # 0) =>
          UNCHANGED <<udpPort, sockets, host, port, debug, hooks, count,
                      lastHeaderErrAt>>]_vars

\* start() has returned on a service that held an open socket, after stop()
\* had returned twice in a row before
C27_Witness ==
  /\ OscReturned
  /\ oscEv.kind = "start"
  /\ oscEv.outcome = "held"
  /\ udpPort = MaxSockets
  /\ sockets[udpPort].state = "open"
  /\ sockets[1].state = "closed"

\* ------------------------------------------------------------------------
\* Properties of the listeners' calls of hooks.onDirtPlay
\* ------------------------------------------------------------------------
\* the listener of a delivery with a hook has returned
Dispatched(kind) == dispatched.ran /\ received.kind = kind /\ received.hk

\* the /dirt/play messages among the packets of the received bundle
DirtPackets == SelectSeq(received.packet.packets, LAMBDA q : q.addr = DirtPlay)

\* the /dirt/play messages among packets, at any depth
RECURSIVE DirtPlayCount(_)
DirtPlayCount(packets) ==
  IF packets = <<>> THEN 0
  ELSE (IF Head(packets).addr = DirtPlay THEN 1
        ELSE DirtPlayCount(Head(packets).packets))
         + DirtPlayCount(Tail(packets))

\* C21: For every /dirt/play packet of a received bundle, the timetag
\* passed to the onDirtPlay hook is the packet's own timetag when the
\* packet carries one, and the bundle's timetag otherwise (the timeTag
\* the transport hands over with the bundle, else the bundle's field).
C21_PacketTimetagFirst ==
  Dispatched("bundle") =>
    \A k \in 1..Len(DirtPackets) :
      /\ k <= Len(dispatched.hookArgs)
      /\ dispatched.hookArgs[k].timeTag =
           IF DirtPackets[k].timeTag # Undefined THEN DirtPackets[k].timeTag
           ELSE IF received.timeTag # Undefined THEN received.timeTag
           ELSE received.packet.timeTag

\* C22: Every /dirt/play message contained in a received bundle, at any
\* nesting depth, is dispatched by the bundle handler to the onDirtPlay
\* hook, once per contained message.
C22_NestedMessagesDispatched ==
  Dispatched("bundle") =>
    Len(dispatched.hookArgs) = DirtPlayCount(received.packet.packets)

\* the keys of the complete pairs of an argument list, and the value of
\* the last pair with key k
PairKeys(xs) == {JsString(Unwrap(xs[2 * i - 1])) : i \in 1..(Len(xs) \div 2)}
LastValue(xs, k) ==
  LET last == CHOOSE i \in 1..(Len(xs) \div 2) :
                /\ JsString(Unwrap(xs[2 * i - 1])) = k
                /\ \A j \in (i + 1)..(Len(xs) \div 2) :
                     JsString(Unwrap(xs[2 * j - 1])) # k
  IN Unwrap(xs[2 * last])

\* evt holds exactly the keys, each with the value of its last pair
HoldsPairs(evt, xs, keys) ==
  /\ DOMAIN evt = keys
  /\ \A k \in keys : evt[k] = LastValue(xs, k)

\* C23 as stated: the event record maps String(k_i) to the unwrapped v_i
\* for every complete pair, drops a trailing unpaired key, and on
\* duplicate keys holds the value of the last occurrence.
C23_EveryPairMapped ==
  Dispatched("message") =>
    /\ Len(dispatched.hookArgs) = 1
    /\ HoldsPairs(dispatched.hookArgs[1].evt, received.packet.args,
                  PairKeys(received.packet.args))

\* C23: the event record maps String(k_i) to the unwrapped v_i for every
\* complete pair whose String(k_i) is not empty, drops a trailing unpaired
\* key, and on duplicate keys holds the value of the last occurrence; in
\* the listener of 'message' and, per packet, in the listener of 'bundle'.
C23_NonEmptyKeysMapped ==
  /\ Dispatched("message") =>
       /\ Len(dispatched.hookArgs) = 1
       /\ HoldsPairs(dispatched.hookArgs[1].evt, received.packet.args,
                     PairKeys(received.packet.args) \ {""})
  /\ Dispatched("bundle") =>
       /\ Len(dispatched.hookArgs) = Len(DirtPackets)
       /\ \A k \in 1..Len(DirtPackets) :
            HoldsPairs(dispatched.hookArgs[k].evt, DirtPackets[k].args,
                       PairKeys(DirtPackets[k].args) \ {""})

\* a message with a key given twice with different values, an empty key
\* and a trailing key has been dispatched
C23_Witness ==
  /\ Dispatched("message")
  /\ received.packet.args =
       <<Meta(StrArg("cps")), Meta(NumArg(1)), Meta(StrArg("cps")), NumArg(2)>>
  /\ dispatched.hookArgs[1].evt = [k \in {"cps"} |-> NumArg(2)]

====
